---- MODULE Spec2Model ----
(***************************************************************************)
(* Time evaluation and flow composition of disclose-dsl.                   *)
(*                                                                         *)
(* Numbers of the program are JavaScript numbers.  They are modelled as    *)
(* exact rationals <<numerator, denominator>> in lowest terms with a       *)
(* positive denominator, so that two equal numbers are equal tuples.       *)
(* Times, durations and delays are drawn from integers (milliseconds).     *)
(***************************************************************************)
EXTENDS Integers, Sequences, FiniteSets, TLC

(***************************************************************************)
(* Bounds of the model.                                                    *)
(***************************************************************************)
MaxTime == 8

MaxDuration == 3

MaxRepeatDelay == 2

MaxKeyframes == 3

MaxKeyTime == 3

MaxItems == 3

MaxFlowTime == 6

\* Longest offset text after the prefix of a time reference.
MaxSuffix == 4

\* Longest generated text after the '#' of a colour.
MaxHex == 3

\* The interpolation parameters are the quarters -1/4 .. MaxQuarter/4.
MaxQuarter == 5

\* Most operations on the Diagnostics store and the Renderer in a run.
MaxOps == 4

\* The polygons to distort have their points on a grid of 0 .. MaxGrid.
MaxGrid == 2

\* Most items of a sequence whose thunks are counted.
MaxThunkItems == 2

\* Most evaluate() calls on such a sequence in a run.
MaxEvals == 2

\* Largest value of the clock (performance.now()) in a run.
MaxClock == 3

\* Most calls on a Timeline in a run.
MaxTimelineOps == 3

(***************************************************************************)
(* Rational arithmetic.                                                    *)
(***************************************************************************)
Abs(n) == IF n < 0 THEN -n ELSE n

RECURSIVE GCD(_, _)
GCD(a, b) == IF b = 0 THEN a ELSE GCD(b, a % b)

Norm(n, d) ==
  LET s == IF d < 0 THEN -1 ELSE 1
      g == GCD(Abs(n), Abs(d))
  IN  <<(s * n) \div g, (s * d) \div g>>

R(n) == <<n, 1>>

Zero == R(0)

One == R(1)

RAdd(a, b) == Norm(a[1] * b[2] + b[1] * a[2], a[2] * b[2])

RSub(a, b) == Norm(a[1] * b[2] - b[1] * a[2], a[2] * b[2])

RMul(a, b) == Norm(a[1] * b[1], a[2] * b[2])

RDiv(a, b) == Norm(a[1] * b[2], a[2] * b[1])

RLt(a, b) == a[1] * b[2] < b[1] * a[2]

RLe(a, b) == a[1] * b[2] <= b[1] * a[2]

\* JavaScript's % on numbers: the remainder has the sign of the dividend.
RRem(a, b) ==
  LET n == a[1] * b[2]
      m == Abs(b[1] * a[2])
      r == IF n >= 0 THEN n % m ELSE -((-n) % m)
  IN  Norm(r, a[2] * b[2])

(***************************************************************************)
(* Easing (renderer).                                                      *)
(***************************************************************************)
EaseNames == {"none", "linear", "easeIn", "easeOut", "easeInOut"}

NamedEase(n) == [type |-> n, x1 |-> Zero, y1 |-> Zero, x2 |-> Zero, y2 |-> Zero]

BezierEase(y1, y2) ==
  [type |-> "cubicBezier", x1 |-> Zero, y1 |-> y1, x2 |-> One, y2 |-> y2]

cubicBezier(x1, y1, x2, y2, t) ==
  LET u   == RSub(One, t)
      tt  == RMul(t, t)
      uu  == RMul(u, u)
      uuu == RMul(uu, u)
      ttt == RMul(tt, t)
  IN  RAdd(RAdd(RAdd(RMul(uuu, Zero),
                     RMul(RMul(RMul(R(3), uu), t), y1)),
                RMul(RMul(RMul(R(3), u), tt), y2)),
           RMul(ttt, One))

applyEase(t, ease) ==
  IF ease.type \in {"none", "linear"} THEN t
  ELSE IF ease.type = "easeIn" THEN RMul(t, t)
  ELSE IF ease.type = "easeOut"
    THEN RSub(One, RMul(RSub(One, t), RSub(One, t)))
  ELSE IF ease.type = "easeInOut"
    THEN IF RLt(t, <<1, 2>>)
           THEN RMul(R(2), RMul(t, t))
           ELSE LET p == RAdd(RMul(R(-2), t), R(2))
                IN  RSub(One, RDiv(RMul(p, p), R(2)))
  ELSE cubicBezier(ease.x1, ease.y1, ease.x2, ease.y2, t)

(***************************************************************************)
(* phase (renderer): normalized, eased progress of a timing spec.          *)
(***************************************************************************)
\* phase without the clamp of local / duration to 1.
phase_noClamp(time, duration, loop, start, delay, repeatDelay, ease, stagger, index) ==
  IF RLe(duration, Zero) THEN One
  ELSE
    LET local == RSub(RSub(RSub(time, start), delay), RMul(index, stagger))
    IN  IF RLe(local, Zero) THEN Zero
        ELSE IF loop
          THEN LET cycle   == RAdd(duration, repeatDelay)
                   inCycle == IF RLt(Zero, cycle) THEN RRem(local, cycle) ELSE local
               IN  IF RLt(duration, inCycle) THEN One
                   ELSE applyEase(RDiv(inCycle, duration), ease)
          ELSE applyEase(RDiv(local, duration), ease)

\* phase wrapping the local time at the duration instead of the cycle.
phase_modDuration(time, duration, loop, start, delay, repeatDelay, ease, stagger, index) ==
  IF RLe(duration, Zero) THEN One
  ELSE
    LET local == RSub(RSub(RSub(time, start), delay), RMul(index, stagger))
    IN  IF RLe(local, Zero) THEN Zero
        ELSE IF loop
          THEN LET cycle   == RAdd(duration, repeatDelay)
                   inCycle == IF RLt(Zero, cycle) THEN RRem(local, duration) ELSE local
               IN  IF RLt(duration, inCycle) THEN One
                   ELSE applyEase(RDiv(inCycle, duration), ease)
          ELSE LET t == RDiv(local, duration)
               IN  applyEase(IF RLt(One, t) THEN One ELSE t, ease)

\* phase without the hold at 1 during the repeat gap.
phase_noGap(time, duration, loop, start, delay, repeatDelay, ease, stagger, index) ==
  IF RLe(duration, Zero) THEN One
  ELSE
    LET local == RSub(RSub(RSub(time, start), delay), RMul(index, stagger))
    IN  IF RLe(local, Zero) THEN Zero
        ELSE IF loop
          THEN LET cycle   == RAdd(duration, repeatDelay)
                   inCycle == IF RLt(Zero, cycle) THEN RRem(local, cycle) ELSE local
               IN  applyEase(RDiv(inCycle, duration), ease)
          ELSE LET t == RDiv(local, duration)
               IN  applyEase(IF RLt(One, t) THEN One ELSE t, ease)

\* phase returning 0 instead of 1 during the repeat gap.
phase_gapZero(time, duration, loop, start, delay, repeatDelay, ease, stagger, index) ==
  IF RLe(duration, Zero) THEN One
  ELSE
    LET local == RSub(RSub(RSub(time, start), delay), RMul(index, stagger))
    IN  IF RLe(local, Zero) THEN Zero
        ELSE IF loop
          THEN LET cycle   == RAdd(duration, repeatDelay)
                   inCycle == IF RLt(Zero, cycle) THEN RRem(local, cycle) ELSE local
               IN  IF RLt(duration, inCycle) THEN Zero
                   ELSE applyEase(RDiv(inCycle, duration), ease)
          ELSE LET t == RDiv(local, duration)
               IN  applyEase(IF RLt(One, t) THEN One ELSE t, ease)

phase(time, duration, loop, start, delay, repeatDelay, ease, stagger, index) ==
  IF RLe(duration, Zero) THEN One
  ELSE
    LET local == RSub(RSub(RSub(time, start), delay), RMul(index, stagger))
    IN  IF RLe(local, Zero) THEN Zero
        ELSE IF loop
          THEN LET cycle   == RAdd(duration, repeatDelay)
                   inCycle == IF RLt(Zero, cycle) THEN RRem(local, cycle) ELSE local
               IN  IF RLt(duration, inCycle) THEN One
                   ELSE applyEase(RDiv(inCycle, duration), ease)
          ELSE LET t == RDiv(local, duration)
               IN  applyEase(IF RLt(One, t) THEN One ELSE t, ease)

lerp(a, b, t) == RAdd(a, RMul(RSub(b, a), t))

(***************************************************************************)
(* Keyframe interpolation (renderer).  A spec carries an optional duration *)
(* (durationSet tells whether spec.duration is present) and a list of      *)
(* keyframes [time, value].                                                *)
(***************************************************************************)
durationOf(spec) ==
  IF Len(spec.keyframes) > 0
    THEN IF spec.durationSet THEN R(spec.duration)
         ELSE R(spec.keyframes[Len(spec.keyframes)].time)
    ELSE IF spec.durationSet THEN R(spec.duration) ELSE Zero

localTimeForKeyframes(time, spec, start, index, stagger) ==
  LET delay == R(spec.delay)
      local == RSub(RSub(RSub(time, start), delay), RMul(index, stagger))
  IN  IF RLe(local, Zero) THEN Zero
      ELSE
        LET duration == durationOf(spec)
            cycle    == RAdd(duration, R(spec.repeatDelay))
            wrapped  == IF spec.loop
                          THEN IF RLt(Zero, cycle) THEN RRem(local, cycle) ELSE local
                          ELSE local
        IN  IF RLt(duration, wrapped) THEN duration ELSE wrapped

RECURSIVE segmentFrom(_, _, _)
segmentFrom(local, keyframes, i) ==
  IF i > Len(keyframes) - 1
    THEN [a |-> keyframes[Len(keyframes)], b |-> keyframes[Len(keyframes)], t |-> One]
    ELSE
      LET a == keyframes[i]
          b == keyframes[i + 1]
      IN  IF RLe(local, R(b.time))
            THEN LET span == b.time - a.time
                 IN  [a |-> a, b |-> b,
                      t |-> IF span <= 0 THEN One
                            ELSE RDiv(RSub(local, R(a.time)), R(span))]
            ELSE segmentFrom(local, keyframes, i + 1)

\* segmentForKeyframes without the early return before the first keyframe.
segmentForKeyframes_noFirst(local, keyframes) ==
  segmentFrom(local, keyframes, 1)

\* segmentForKeyframes dividing by the span without subtracting a.time.
RECURSIVE segmentFrom_noSpan(_, _, _)
segmentFrom_noSpan(local, keyframes, i) ==
  IF i > Len(keyframes) - 1
    THEN [a |-> keyframes[Len(keyframes)], b |-> keyframes[Len(keyframes)], t |-> One]
    ELSE
      LET a == keyframes[i]
          b == keyframes[i + 1]
      IN  IF RLe(local, R(b.time))
            THEN LET span == b.time - a.time
                 IN  [a |-> a, b |-> b,
                      t |-> IF span <= 0 THEN One
                            ELSE RDiv(local, R(span))]
            ELSE segmentFrom_noSpan(local, keyframes, i + 1)

segmentForKeyframes_noSpan(local, keyframes) ==
  IF RLe(local, R(keyframes[1].time))
    THEN [a |-> keyframes[1], b |-> keyframes[1], t |-> Zero]
    ELSE segmentFrom_noSpan(local, keyframes, 1)

segmentForKeyframes(local, keyframes) ==
  IF RLe(local, R(keyframes[1].time))
    THEN [a |-> keyframes[1], b |-> keyframes[1], t |-> Zero]
    ELSE segmentFrom(local, keyframes, 1)

keyframeNumber(time, keyframes, spec, start, index, stagger) ==
  LET local == localTimeForKeyframes(time, spec, start, index, stagger)
  IN  IF Len(keyframes) = 1 THEN R(keyframes[1].value)
      ELSE LET seg == segmentForKeyframes(local, keyframes)
           IN  lerp(R(seg.a.value), R(seg.b.value), applyEase(seg.t, spec.ease))

(***************************************************************************)
(* Time references (flow composer).  A string is a sequence of one-        *)
(* character strings; a TimeRef is a number, a string or undefined.        *)
(***************************************************************************)
Digits == {"0", "1", "2", "3", "4", "5", "6", "7", "8", "9"}

DigitValue(c) ==
  CASE c = "0" -> 0 [] c = "1" -> 1 [] c = "2" -> 2 [] c = "3" -> 3
    [] c = "4" -> 4 [] c = "5" -> 5 [] c = "6" -> 6 [] c = "7" -> 7
    [] c = "8" -> 8 [] c = "9" -> 9

Whitespace == {" ", "\t", "\n"}

SceneText == <<"s", "c", "e", "n", "e">>

PrevEndText == <<"p", "r", "e", "v", ".", "e", "n", "d">>

NumberRef(n) == [type |-> "number", num |-> n, text |-> <<>>]

StringRef(t) == [type |-> "string", num |-> Zero, text |-> t]

UndefinedRef == [type |-> "undefined", num |-> Zero, text |-> <<>>]

\* String.prototype.replace(/\s+/g, '')
stripWhitespace(s) == SelectSeq(s, LAMBDA c : c \notin Whitespace)

\* String.prototype.startsWith
startsWith(s, prefix) ==
  Len(s) >= Len(prefix) /\ SubSeq(s, 1, Len(prefix)) = prefix

\* String.prototype.slice(n)
slice(s, n) == SubSeq(s, n + 1, Len(s))

IsDigits(s) == Len(s) >= 1 /\ \A i \in 1 .. Len(s) : s[i] \in Digits

DotAt(s) == {i \in 1 .. Len(s) : s[i] = "."}

\* offset.match(/^([+-]\d+(\.\d+)?)$/)
matchesOffset(offset) ==
  /\ Len(offset) >= 2
  /\ offset[1] \in {"+", "-"}
  /\ LET body == Tail(offset)
     IN  IF DotAt(body) = {} THEN IsDigits(body)
         ELSE LET p == CHOOSE i \in DotAt(body) : \A j \in DotAt(body) : i <= j
              IN  /\ IsDigits(SubSeq(body, 1, p - 1))
                  /\ IsDigits(SubSeq(body, p + 1, Len(body)))

RECURSIVE DigitsValue(_)
DigitsValue(s) ==
  IF s = <<>> THEN 0
  ELSE 10 * DigitsValue(SubSeq(s, 1, Len(s) - 1)) + DigitValue(s[Len(s)])

RECURSIVE Pow10(_)
Pow10(n) == IF n = 0 THEN 1 ELSE 10 * Pow10(n - 1)

\* Number(m[1]) for a text that matchesOffset
numberOf(offset) ==
  LET sign == IF offset[1] = "-" THEN -1 ELSE 1
      body == Tail(offset)
  IN  IF DotAt(body) = {} THEN R(sign * DigitsValue(body))
      ELSE LET p    == CHOOSE i \in DotAt(body) : \A j \in DotAt(body) : i <= j
               int  == SubSeq(body, 1, p - 1)
               frac == SubSeq(body, p + 1, Len(body))
           IN  Norm(sign * (DigitsValue(int) * Pow10(Len(frac)) + DigitsValue(frac)),
                    Pow10(Len(frac)))

parseOffset(base, offset) ==
  IF offset = <<>> THEN base
  ELSE IF ~matchesOffset(offset) THEN base
  ELSE RAdd(base, numberOf(offset))

resolveStart(start, prevEnd) ==
  IF start.type = "number" THEN start.num
  ELSE IF start.type = "undefined" THEN Zero
  ELSE LET s == stripWhitespace(start.text)
       IN  IF startsWith(s, SceneText)
             THEN parseOffset(Zero, slice(s, Len(SceneText)))
           ELSE IF startsWith(s, PrevEndText)
             THEN parseOffset(prevEnd, slice(s, Len(PrevEndText)))
           ELSE Zero

(***************************************************************************)
(* Leaf shapes.  Shape.ts is not part of the sources at hand: a builder    *)
(* is known by its id and its estimated duration, and evaluating it at a   *)
(* time yields one instance that records the shape and that time.          *)
(***************************************************************************)
Shape(i, d) == [kind |-> "shape", id |-> i, duration |-> d]

Array(elems) == [kind |-> "array", elems |-> elems]

Thunk(built) == [kind |-> "thunk", returns |-> built]

shapeEvaluate(builder, time) == <<[shape |-> builder.id, time |-> time]>>

estimateDuration(builder) == R(builder.duration)

(***************************************************************************)
(* Flow composer.                                                          *)
(***************************************************************************)
RMax(a, b) == IF RLt(a, b) THEN b ELSE a

RECURSIVE evaluateAll(_, _)
evaluateAll(builders, time) ==
  IF builders = <<>> THEN <<>>
  ELSE shapeEvaluate(Head(builders), time) \o evaluateAll(Tail(builders), time)

RECURSIVE flattenFrom(_, _, _)
flattenFrom(items, time, offset) ==
  IF items = <<>> THEN <<>>
  ELSE
    LET item == Head(items)
        out  == IF item.kind = "thunk"
                  THEN flattenFrom(<<item.returns>>, time, offset)
                ELSE IF item.kind = "array" THEN evaluateAll(item.elems, time)
                ELSE shapeEvaluate(item, time)
    IN  out \o flattenFrom(Tail(items), time, offset)

\* flattenItems putting each item's instances in front of the earlier ones.
RECURSIVE flattenReversed(_, _, _)
flattenReversed(items, time, offset) ==
  IF items = <<>> THEN <<>>
  ELSE
    LET item == Head(items)
        out  == IF item.kind = "thunk"
                  THEN flattenReversed(<<item.returns>>, time, offset)
                ELSE IF item.kind = "array" THEN evaluateAll(item.elems, time)
                ELSE shapeEvaluate(item, time)
    IN  flattenReversed(Tail(items), time, offset) \o out

flattenItems_unshift(items, time, offset) == flattenReversed(items, time, offset)

\* flattenItems resolving a thunk once only: what a thunk returns is
\* evaluated when it is a builder or an array, and dropped otherwise.
RECURSIVE flattenShallow(_, _, _)
flattenShallow(items, time, offset) ==
  IF items = <<>> THEN <<>>
  ELSE
    LET item  == Head(items)
        built == IF item.kind = "thunk" THEN item.returns ELSE item
        out   == IF built.kind = "thunk" THEN <<>>
                 ELSE IF built.kind = "array" THEN evaluateAll(built.elems, time)
                 ELSE shapeEvaluate(built, time)
    IN  out \o flattenShallow(Tail(items), time, offset)

flattenItems_shallow(items, time, offset) == flattenShallow(items, time, offset)

flattenItems(items, time, offset) == flattenFrom(items, time, offset)

RECURSIVE maxDuration(_, _)
maxDuration(builders, acc) ==
  IF builders = <<>> THEN acc
  ELSE maxDuration(Tail(builders), RMax(acc, estimateDuration(Head(builders))))

\* durationOfItem adding up the estimated durations of an array's elements.
RECURSIVE sumDuration(_, _)
sumDuration(builders, acc) ==
  IF builders = <<>> THEN acc
  ELSE sumDuration(Tail(builders), RAdd(acc, estimateDuration(Head(builders))))

RECURSIVE durationOfItem_sum(_)
durationOfItem_sum(item) ==
  IF item.kind = "thunk" THEN durationOfItem_sum(item.returns)
  ELSE IF item.kind = "array" THEN sumDuration(item.elems, Zero)
  ELSE estimateDuration(item)

RECURSIVE durationOfItem(_)
durationOfItem(item) ==
  IF item.kind = "thunk" THEN durationOfItem(item.returns)
  ELSE IF item.kind = "array" THEN maxDuration(item.elems, Zero)
  ELSE estimateDuration(item)

\* A resolver is the optional predicate of a Group: none, the constant
\* function of when(), a caller's function of time (the set of times at which
\* it returns true), or on()'s time >= resolvedStart.
NoResolver == [type |-> "none", value |-> FALSE, trueAt |-> {}, start |-> Zero]

ConstantResolver(v) == [type |-> "constant", value |-> v, trueAt |-> {}, start |-> Zero]

FunctionResolver(ts) == [type |-> "function", value |-> FALSE, trueAt |-> ts, start |-> Zero]

FromResolver(st) == [type |-> "from", value |-> FALSE, trueAt |-> {}, start |-> st]

resolverCall(resolver, time) ==
  CASE resolver.type = "constant" -> resolver.value
    [] resolver.type = "function" -> time \in resolver.trueAt
    [] resolver.type = "from" -> RLe(resolver.start, time)

\* new Group(items, resolver, offset)
Group(items, resolver, offset) ==
  [class |-> "Group", items |-> items, resolver |-> resolver, offset |-> offset,
   entries |-> <<>>]

\* The constructor loop of SequenceGroup, from the given cursor.
RECURSIVE entriesFrom(_, _)
entriesFrom(items, cursor) ==
  IF items = <<>> THEN <<>>
  ELSE <<[offset |-> cursor, item |-> Head(items)]>>
         \o entriesFrom(Tail(items), RAdd(cursor, durationOfItem(Head(items))))

\* The constructor loop assigning the cursor instead of adding to it.
RECURSIVE entriesNoSum(_, _)
entriesNoSum(items, cursor) ==
  IF items = <<>> THEN <<>>
  ELSE <<[offset |-> cursor, item |-> Head(items)]>>
         \o entriesNoSum(Tail(items), durationOfItem(Head(items)))

SequenceGroup_noAccumulate(items) ==
  [class |-> "SequenceGroup", items |-> <<>>, resolver |-> NoResolver,
   offset |-> Zero, entries |-> entriesNoSum(items, Zero)]

\* new SequenceGroup(items)
SequenceGroup(items) ==
  [class |-> "SequenceGroup", items |-> <<>>, resolver |-> NoResolver,
   offset |-> Zero, entries |-> entriesFrom(items, Zero)]

\* SequenceGroup.evaluate
RECURSIVE sequenceEvaluate(_, _)
sequenceEvaluate(entries, time) ==
  IF entries = <<>> THEN <<>>
  ELSE
    LET entry == Head(entries)
        out   == IF RLt(time, entry.offset) THEN <<>>
                 ELSE flattenItems(<<entry.item>>, RSub(time, entry.offset),
                                   entry.offset)
    IN  out \o sequenceEvaluate(Tail(entries), time)

\* Group.evaluate
groupEvaluate(g, time) ==
  IF g.resolver.type # "none" /\ ~resolverCall(g.resolver, time) THEN <<>>
  ELSE flattenItems(g.items, RSub(time, g.offset), g.offset)

parallel(items) == Group(items, NoResolver, Zero)

sequence(items) == SequenceGroup(items)

\* A condition is a boolean or a function of time.
BooleanCondition(v) == [type |-> "boolean", value |-> v, trueAt |-> {}]

FunctionCondition(ts) == [type |-> "function", value |-> FALSE, trueAt |-> ts]

\* when() ignoring the value of a boolean condition.
when_alwaysTrue(condition, items) ==
  Group(items,
        IF condition.type = "function" THEN FunctionResolver(condition.trueAt)
        ELSE ConstantResolver(TRUE),
        Zero)

when(condition, items) ==
  Group(items,
        IF condition.type = "function" THEN FunctionResolver(condition.trueAt)
        ELSE ConstantResolver(condition.value),
        Zero)

\* on() building the group without its time offset.
on_noOffset(start, items) ==
  LET resolvedStart == resolveStart(start, Zero)
  IN  Group(items, FromResolver(resolvedStart), Zero)

on(start, items) ==
  LET resolvedStart == resolveStart(start, Zero)
  IN  Group(items, FromResolver(resolvedStart), resolvedStart)

evaluate(g, time) ==
  IF g.class = "Group" THEN groupEvaluate(g, time)
  ELSE sequenceEvaluate(g.entries, time)

(***************************************************************************)
(* State.                                                                  *)
(*   pSpec, pTime, pIndex, pPhase, pDone: a number timing spec, the last   *)
(*   phase() call made on it and what it returned.                         *)
(*   kSpec, kTime, kIndex, kValue, kDone: a keyframe-driven number spec,   *)
(*   the last keyframeNumber() call made on it and what it returned.       *)
(*   fCall, group, fTime, fOut, fDone: the combinator call that built a    *)
(*   flow group, the group object, the time of the last evaluate() call on *)
(*   it and the instances that call returned.                              *)
(*   fOrder: how the time of the last evaluate() call compares with the    *)
(*   time of the call before it, in the runs that record the call order.   *)
(*   sRef, sPrevEnd: a time reference and a prevEnd baseline; sFlow,       *)
(*   sRender: what the composer's and the renderer's resolveStart returned *)
(*   for them, once sFlowDone, sRenderDone.                                *)
(*   cFrom, cTo, cT: the arguments of a lerpColor call; cOut, cThrew: the  *)
(*   text it returned, or that it threw, once cDone.                       *)
(*   diagnostics: the Diagnostics store (items, keys, listeners);          *)
(*   dDelivered: the listener calls the last operation on it made;         *)
(*   dCleared: the keys addOnce was called with before the last clear();   *)
(*   dReports: the addOnce calls since the store was last empty; dPlain:   *)
(*   whether add was called directly since then; dOp, dOps: the last       *)
(*   operation on the store or the renderer and how many there were.       *)
(*   rScene, rCanvas: the scene of the Renderer and whether its canvas has *)
(*   a size; rTime, rDrawn, rReturned, rThrew, rPending: the time of the   *)
(*   last render(), the shapes it drew, what it returned, whether it       *)
(*   threw, and pendingImages.                                             *)
(*   xShape, xCorners: a shape and the corner displacements of a distort   *)
(*   modifier; xOut: the geometry evaluate() gave, once xDone.             *)
(*   qItems, qEntries: the items of a sequence whose thunks may return a   *)
(*   different value at each invocation, and the entries its constructor   *)
(*   built; qCalls: how often each item was invoked so far; qTime, qOut:   *)
(*   the time of the last evaluate() call and what it returned; qEvals:    *)
(*   the number of evaluate() calls.                                       *)
(*   timeline, clock: a Timeline and the value of performance.now();       *)
(*   tOp, tOps: the last operation on the timeline and how many there      *)
(*   were; tBefore: what now() returned and whether the timeline was       *)
(*   playing at the instant before the last operation or clock tick;       *)
(*   tResume: the value and the clock at the last play() that resumed a    *)
(*   paused timeline, while only the clock has advanced since.             *)
(***************************************************************************)
VARIABLES pSpec, pTime, pIndex, pPhase, pDone,
          kSpec, kTime, kIndex, kValue, kDone,
          fCall, group, fTime, fOut, fDone, fOrder,
          sRef, sPrevEnd, sFlow, sRender, sFlowDone, sRenderDone,
          cFrom, cTo, cT, cOut, cThrew, cDone,
          diagnostics, dDelivered, dReports, dPlain, dCleared, dOp, dOps,
          rScene, rCanvas, rTime, rDrawn, rReturned, rThrew, rPending,
          xShape, xCorners, xOut, xDone,
          qItems, qEntries, qCalls, qTime, qOut, qEvals,
          timeline, clock, tOp, tOps, tBefore, tResume

pvars == <<pSpec, pTime, pIndex, pPhase, pDone>>

kvars == <<kSpec, kTime, kIndex, kValue, kDone>>

fvars == <<fCall, group, fTime, fOut, fDone, fOrder>>

svars == <<sRef, sPrevEnd, sFlow, sRender, sFlowDone, sRenderDone>>

cvars == <<cFrom, cTo, cT, cOut, cThrew, cDone>>

dvars == <<diagnostics, dDelivered, dReports, dPlain, dCleared, dOp, dOps>>

rvars == <<rScene, rCanvas, rTime, rDrawn, rReturned, rThrew, rPending>>

xvars == <<xShape, xCorners, xOut, xDone>>

qvars == <<qItems, qEntries, qCalls, qTime, qOut, qEvals>>

tvars == <<timeline, clock, tOp, tOps, tBefore, tResume>>

vars == <<pvars, kvars, fvars, svars, cvars, dvars, rvars, xvars, qvars, tvars>>

\* The state of the other components, which an operation leaves alone.
notP == <<kvars, fvars, svars, cvars, dvars, rvars, xvars, qvars, tvars>>

notK == <<pvars, fvars, svars, cvars, dvars, rvars, xvars, qvars, tvars>>

notF == <<pvars, kvars, svars, cvars, dvars, rvars, xvars, qvars, tvars>>

notS == <<pvars, kvars, fvars, cvars, dvars, rvars, xvars, qvars, tvars>>

notC == <<pvars, kvars, fvars, svars, dvars, rvars, xvars, qvars, tvars>>

\* The Diagnostics store and the Renderer that reports to it go together.
notDR == <<pvars, kvars, fvars, svars, cvars, xvars, qvars, tvars>>

notX == <<pvars, kvars, fvars, svars, cvars, dvars, rvars, qvars, tvars>>

notQ == <<pvars, kvars, fvars, svars, cvars, dvars, rvars, xvars, tvars>>

notT == <<pvars, kvars, fvars, svars, cvars, dvars, rvars, xvars, qvars>>

(***************************************************************************)
(* Inputs of the timing resolver.                                          *)
(***************************************************************************)
Times == 0 .. MaxTime

Durations == -1 .. MaxDuration

RepeatDelays == (-(MaxDuration + 1)) .. MaxRepeatDelay

Starts == {0, 1}

Delays == {0, 2}

Staggers == {0, 1}

Indexes == {0, 1}

BezierYs == {R(-1), Zero, <<1, 2>>, One, R(2)}

Eases ==
  {NamedEase(n) : n \in EaseNames}
    \cup {BezierEase(y[1], y[2]) : y \in BezierYs \X BezierYs}

TimingSpecs ==
  [duration : Durations, loop : BOOLEAN, start : Starts, delay : Delays,
   repeatDelay : RepeatDelays, ease : Eases, stagger : Staggers]

\* evalOpacity / evalFill / evalNumber: phase(time, durationOf(spec), spec.loop,
\* start, spec.delay, spec.repeatDelay, spec.ease, spec.stagger, index)
phaseOf(spec, time, index) ==
  phase(R(time), R(spec.duration), spec.loop, R(spec.start), R(spec.delay),
        R(spec.repeatDelay), spec.ease, R(spec.stagger), R(index))

(***************************************************************************)
(* Inputs of the keyframe interpolator: keyframe lists with non-decreasing *)
(* times; the keyframe at position i carries the value KeyValue(i), which  *)
(* differs from its neighbours'.                                           *)
(***************************************************************************)
KeyTimes == -1 .. MaxKeyTime

KeyValue(i) == (7 * i * i) % 11

KeyframeLists ==
  UNION {{[i \in 1 .. n |-> [time |-> ts[i], value |-> KeyValue(i)]] :
            ts \in {s \in [1 .. n -> KeyTimes] :
                      \A i \in 1 .. n - 1 : s[i] <= s[i + 1]}} :
         n \in 1 .. MaxKeyframes}

KDurations == 0 .. MaxKeyTime + 1

KRepeatDelays == {-(MaxKeyTime + 1), 0, 1}

KDelays == {0, 1}

KEases == {NamedEase("none"), BezierEase(R(2), R(-1))}

KTimes == 0 .. MaxKeyTime + 4

KeyframeSpecs ==
  {[keyframes |-> k, durationSet |-> d[1], duration |-> d[2], loop |-> l,
    delay |-> dl, repeatDelay |-> rd, ease |-> e, start |-> 0, stagger |-> 1] :
     k \in KeyframeLists,
     d \in {<<FALSE, 0>>} \cup ({TRUE} \X KDurations),
     l \in BOOLEAN, dl \in KDelays, rd \in KRepeatDelays, e \in KEases}

IdlePhase ==
  /\ pSpec = [duration |-> 0, loop |-> FALSE, start |-> 0, delay |-> 0,
              repeatDelay |-> 0, ease |-> NamedEase("none"), stagger |-> 0]
  /\ pTime = 0
  /\ pIndex = 0
  /\ pPhase = Zero
  /\ pDone = FALSE

IdleKeyframes ==
  /\ kSpec = [keyframes |-> <<[time |-> 0, value |-> 0]>>, durationSet |-> FALSE,
              duration |-> 0, loop |-> FALSE, delay |-> 0, repeatDelay |-> 0,
              ease |-> NamedEase("none"), start |-> 0, stagger |-> 0]
  /\ kTime = 0
  /\ kIndex = 0
  /\ kValue = Zero
  /\ kDone = FALSE

(***************************************************************************)
(* Inputs of the flow composer.                                            *)
(***************************************************************************)
FlowTimes == 0 .. MaxFlowTime

S1 == Shape(1, 2)

S2 == Shape(2, 1)

S3 == Shape(3, 0)

S4 == Shape(4, 3)

Items ==
  {S1, S2, S3, Array(<<S2, S4>>), Array(<<>>), Thunk(S4), Thunk(Array(<<S3, S1>>)),
   Thunk(Thunk(S2))}

ItemLists(n) == UNION {[1 .. k -> Items] : k \in 0 .. n}

Conditions ==
  {BooleanCondition(TRUE), BooleanCondition(FALSE),
   FunctionCondition({R(t) : t \in {u \in FlowTimes : u >= 2}}),
   FunctionCondition({R(t) : t \in {u \in FlowTimes : u % 2 = 1}})}

\* "scene+2", " scene + 1.5", "scene-1", "prev.end+3", "scene", "scene+1x",
\* "later", and the number 2.
TimeRefs ==
  {StringRef(SceneText \o <<"+", "2">>),
   StringRef(<<" ">> \o SceneText \o <<" ", "+", " ", "1", ".", "5">>),
   StringRef(SceneText \o <<"-", "1">>),
   StringRef(PrevEndText \o <<"+", "3">>),
   StringRef(SceneText),
   StringRef(SceneText \o <<"+", "1", "x">>),
   StringRef(<<"l", "a", "t", "e", "r">>),
   NumberRef(R(2))}

FlowCall(op, items, condition, start) ==
  [op |-> op, items |-> items, condition |-> condition, start |-> start]

FlowCalls ==
  {FlowCall("parallel", is, BooleanCondition(TRUE), UndefinedRef) :
     is \in ItemLists(MaxItems)}
    \cup {FlowCall("sequence", is, BooleanCondition(TRUE), UndefinedRef) :
            is \in ItemLists(MaxItems)}
    \cup {FlowCall("when", is, c, UndefinedRef) :
            is \in ItemLists(MaxItems - 1), c \in Conditions}
    \cup {FlowCall("on", is, BooleanCondition(TRUE), r) :
            is \in ItemLists(MaxItems - 1), r \in TimeRefs}

construct(call) ==
  CASE call.op = "parallel" -> parallel(call.items)
    [] call.op = "sequence" -> sequence(call.items)
    [] call.op = "when" -> when(call.condition, call.items)
    [] call.op = "on" -> on(call.start, call.items)

IdleFlow ==
  /\ fCall = FlowCall("parallel", <<>>, BooleanCondition(TRUE), UndefinedRef)
  /\ group = parallel(<<>>)
  /\ fTime = 0
  /\ fOut = <<>>
  /\ fDone = FALSE
  /\ fOrder = "unrecorded"

IdleResolve ==
  /\ sRef = UndefinedRef
  /\ sPrevEnd = Zero
  /\ sFlow = Zero
  /\ sRender = Zero
  /\ sFlowDone = FALSE
  /\ sRenderDone = FALSE

IdleColour ==
  /\ cFrom = <<>>
  /\ cTo = <<>>
  /\ cT = Zero
  /\ cOut = <<>>
  /\ cThrew = FALSE
  /\ cDone = FALSE

\* new DiagnosticsStore()
EmptyStore == [items |-> <<>>, keys |-> {}, listeners |-> <<>>]

IdleDiagnostics ==
  /\ diagnostics = EmptyStore
  /\ dDelivered = <<>>
  /\ dReports = <<>>
  /\ dPlain = FALSE
  /\ dCleared = {}
  /\ dOp = "none"
  /\ dOps = 0

\* A thrown value: its class, message and stack ("undefined" when absent).
Thrown(class, message, stack) == [class |-> class, message |-> message, stack |-> stack]

NoError == Thrown("none", "", "undefined")

\* A scene function: from time failsFrom on, either the factory or the
\* evaluate of a node throws the error; before that it gives the shapes.
SceneFn(failure, failsFrom, error, shapes) ==
  [failure |-> failure, failsFrom |-> failsFrom, error |-> error, shapes |-> shapes]

NoScene == SceneFn("none", 0, NoError, <<>>)

IdleRenderer ==
  /\ rScene = NoScene
  /\ rCanvas = "sized"
  /\ rTime = 0
  /\ rDrawn = <<>>
  /\ rReturned = FALSE
  /\ rThrew = FALSE
  /\ rPending = FALSE

IdleDistort ==
  /\ xShape = [kind |-> "path", points |-> <<>>, closed |-> FALSE]
  /\ xCorners = [c \in {"tl", "tr", "br", "bl"} |-> <<Zero, Zero>>]
  /\ xOut = [kind |-> "path", points |-> <<>>, closed |-> FALSE]
  /\ xDone = FALSE

IdleThunks ==
  /\ qItems = <<>>
  /\ qEntries = <<>>
  /\ qCalls = <<>>
  /\ qTime = 0
  /\ qOut = <<>>
  /\ qEvals = 0

\* new Timeline() with performance.now() = 0
IdleTimeline ==
  /\ timeline = [start |-> 0, offset |-> 0, playing |-> TRUE, duration |-> <<>>,
                 timeScale |-> 1]
  /\ clock = 0
  /\ tOp = "none"
  /\ tOps = 0
  /\ tBefore = [now |-> 0, playing |-> TRUE]
  /\ tResume = <<>>

IdleLater ==
  IdleDiagnostics /\ IdleRenderer /\ IdleDistort /\ IdleThunks /\ IdleTimeline

\* The other components before they are used.
IdleNotP == IdleKeyframes /\ IdleFlow /\ IdleResolve /\ IdleColour /\ IdleLater

IdleNotK == IdlePhase /\ IdleFlow /\ IdleResolve /\ IdleColour /\ IdleLater

IdleNotF == IdlePhase /\ IdleKeyframes /\ IdleResolve /\ IdleColour /\ IdleLater

IdleNotS == IdlePhase /\ IdleKeyframes /\ IdleFlow /\ IdleColour /\ IdleLater

IdleNotC == IdlePhase /\ IdleKeyframes /\ IdleFlow /\ IdleResolve /\ IdleLater

IdleNotDR ==
  /\ IdlePhase /\ IdleKeyframes /\ IdleFlow /\ IdleResolve /\ IdleColour
  /\ IdleDistort /\ IdleThunks /\ IdleTimeline

IdleNotX ==
  /\ IdlePhase /\ IdleKeyframes /\ IdleFlow /\ IdleResolve /\ IdleColour
  /\ IdleDiagnostics /\ IdleRenderer /\ IdleThunks /\ IdleTimeline

IdleNotQ ==
  /\ IdlePhase /\ IdleKeyframes /\ IdleFlow /\ IdleResolve /\ IdleColour
  /\ IdleDiagnostics /\ IdleRenderer /\ IdleDistort /\ IdleTimeline

IdleNotT ==
  /\ IdlePhase /\ IdleKeyframes /\ IdleFlow /\ IdleResolve /\ IdleColour
  /\ IdleDiagnostics /\ IdleRenderer /\ IdleDistort /\ IdleThunks

InitPhase ==
  /\ pSpec \in TimingSpecs
  /\ pTime = 0
  /\ pIndex = 0
  /\ pPhase = Zero
  /\ pDone = FALSE
  /\ IdleNotP

\* One sample of the spec: evalOpacity(spec, time, index) up to its lerp.
EvalPhase ==
  \E t \in Times, i \in Indexes :
    /\ pDone = FALSE
    /\ pTime' = t
    /\ pIndex' = i
    /\ pPhase' = phaseOf(pSpec, t, i)
    /\ pDone' = TRUE
    /\ UNCHANGED <<pSpec, notP>>

NextPhase == EvalPhase

SpecPhase == InitPhase /\ [][NextPhase]_vars

\* evalOpacity on a keyframe-driven spec: keyframeNumber(time, spec.keyframes,
\* spec, resolveStart(spec.start, 0), index, spec.stagger)
keyframeValueOf(spec, time, index) ==
  keyframeNumber(R(time), spec.keyframes, spec, R(spec.start), R(index),
                 R(spec.stagger))

InitKeyframes ==
  /\ kSpec \in KeyframeSpecs
  /\ kTime = 0
  /\ kIndex = 0
  /\ kValue = Zero
  /\ kDone = FALSE
  /\ IdleNotK

\* One sample of the spec: evalOpacity(spec, time, index) on its keyframes.
EvalKeyframes ==
  \E t \in KTimes, i \in Indexes :
    /\ kDone = FALSE
    /\ kTime' = t
    /\ kIndex' = i
    /\ kValue' = keyframeValueOf(kSpec, t, i)
    /\ kDone' = TRUE
    /\ UNCHANGED <<kSpec, notK>>

NextKeyframes == EvalKeyframes

SpecKeyframes == InitKeyframes /\ [][NextKeyframes]_vars

(***************************************************************************)
(* Claims about phase.                                                     *)
(***************************************************************************)
localOf(spec, time, index) == time - spec.start - spec.delay - index * spec.stagger

cycleOf(spec) == spec.duration + spec.repeatDelay

BezierInUnitRange(ease) ==
  ease.type = "cubicBezier" =>
    /\ RLe(Zero, ease.y1) /\ RLe(ease.y1, One)
    /\ RLe(Zero, ease.y2) /\ RLe(ease.y2, One)

\* C1: for every timing spec, also one with duration <= 0, and every time
\* before start + delay (index 0), phase returns 0.
C1_ZeroBeforeStart ==
  (pDone /\ pIndex = 0 /\ pTime < pSpec.start + pSpec.delay) => pPhase = Zero

\* C2 as stated: a non-looping spec with duration > 0 has a phase that never
\* decreases as time grows, for every ease, cubicBezier with any y1, y2 included.
C2_MonotoneAnyEase ==
  (pDone /\ ~pSpec.loop /\ pSpec.duration > 0) =>
    \A t2 \in Times : pTime <= t2 => RLe(pPhase, phaseOf(pSpec, t2, pIndex))

\* C2 amended: a non-looping spec with duration > 0 has a phase that never
\* decreases as time grows, for linear, easeIn, easeOut, easeInOut and for
\* cubicBezier with y1 and y2 in [0,1].
C2_MonotoneUnitEase ==
  (pDone /\ ~pSpec.loop /\ pSpec.duration > 0 /\ BezierInUnitRange(pSpec.ease)) =>
    \A t2 \in Times : pTime <= t2 => RLe(pPhase, phaseOf(pSpec, t2, pIndex))

\* C2 witness: a cubicBezier spec with y1, y2 in [0,1] sampled strictly inside
\* its run, with a later sample that is strictly larger.
C2_Witness ==
  /\ pDone /\ ~pSpec.loop /\ pSpec.duration > 1
  /\ pSpec.ease.type = "cubicBezier" /\ BezierInUnitRange(pSpec.ease)
  /\ RLt(Zero, pPhase) /\ RLt(pPhase, One)
  /\ \E t2 \in Times : pTime < t2 /\ RLt(pPhase, phaseOf(pSpec, t2, pIndex))

\* C3 as stated: a looping spec has phase(t) = phase(t + cycle), with
\* cycle = duration + repeatDelay, whenever t and t + cycle are both past the
\* initial start.
C3_PeriodicAnyCycle ==
  (/\ pDone /\ pSpec.loop
   /\ localOf(pSpec, pTime, pIndex) >= 0
   /\ localOf(pSpec, pTime + cycleOf(pSpec), pIndex) >= 0) =>
    pPhase = phaseOf(pSpec, pTime + cycleOf(pSpec), pIndex)

\* C3 amended: a looping spec whose cycle = duration + repeatDelay is positive
\* has phase(t) = phase(t + cycle) whenever t is past the initial start.
C3_PeriodicPositiveCycle ==
  (/\ pDone /\ pSpec.loop /\ cycleOf(pSpec) > 0
   /\ localOf(pSpec, pTime, pIndex) >= 0) =>
    pPhase = phaseOf(pSpec, pTime + cycleOf(pSpec), pIndex)

\* C3 witness: a looping spec with a repeat gap sampled in its second cycle,
\* part way through the eased run.
C3_Witness ==
  /\ pDone /\ pSpec.loop /\ pSpec.duration > 1 /\ pSpec.repeatDelay > 0
  /\ localOf(pSpec, pTime, pIndex) > cycleOf(pSpec)
  /\ RLt(Zero, pPhase) /\ RLt(pPhase, One)

\* C4 as stated: phase returns a value in [0,1] for every input and every
\* ease, cubicBezier control values outside [0,1] included.
C4_UnitRangeAnyEase ==
  pDone => (RLe(Zero, pPhase) /\ RLe(pPhase, One))

\* C4 amended: phase returns a value in [0,1] for every time, duration, loop
\* flag, start, delay, repeatDelay, stagger and index, for linear, easeIn,
\* easeOut, easeInOut and for cubicBezier with y1 and y2 in [0,1].
C4_UnitRangeUnitEase ==
  (pDone /\ BezierInUnitRange(pSpec.ease)) =>
    (RLe(Zero, pPhase) /\ RLe(pPhase, One))

\* C4 witness: a looping spec sampled inside its repeat gap, where the
\* position in the cycle exceeds the duration and phase holds at 1.
C4_Witness ==
  /\ pDone /\ pSpec.loop /\ pSpec.duration > 0 /\ pSpec.repeatDelay > 0
  /\ BezierInUnitRange(pSpec.ease)
  /\ localOf(pSpec, pTime, pIndex) > 0
  /\ localOf(pSpec, pTime, pIndex) % cycleOf(pSpec) > pSpec.duration
  /\ pPhase = One

(***************************************************************************)
(* Flow groups: a group is built by one combinator call and then evaluated *)
(* at any times, in any order.                                             *)
(***************************************************************************)
InitFlow ==
  /\ fCall \in FlowCalls
  /\ group = construct(fCall)
  /\ fTime = 0
  /\ fOut = <<>>
  /\ fDone = FALSE
  /\ fOrder = "unrecorded"
  /\ IdleNotF

\* The order of a call at time t after the calls made so far.
orderAfter(t) ==
  IF fOrder = "unrecorded" THEN "unrecorded"
  ELSE IF fDone = FALSE THEN "first"
  ELSE IF t > fTime THEN "later"
  ELSE IF t = fTime THEN "same"
  ELSE "earlier"

\* Group.evaluate with a cache: the call keeps its time in this.offset.
EvaluateGroup_cached ==
  \E t \in FlowTimes :
    /\ group.class = "Group"
    /\ fTime' = t
    /\ fOut' = groupEvaluate(group, R(t))
    /\ fDone' = TRUE
    /\ fOrder' = orderAfter(t)
    /\ group' = [group EXCEPT !.offset = R(t)]
    /\ UNCHANGED <<fCall, notF>>

\* Group.evaluate(time) on a parallel, when or on group: it reads items,
\* resolver and offset and assigns none of them.
EvaluateGroup ==
  \E t \in FlowTimes :
    /\ group.class = "Group"
    /\ fTime' = t
    /\ fOut' = groupEvaluate(group, R(t))
    /\ fDone' = TRUE
    /\ fOrder' = orderAfter(t)
    /\ UNCHANGED <<fCall, group, notF>>

\* SequenceGroup.evaluate(time): it reads entries and assigns nothing.
EvaluateSequence ==
  \E t \in FlowTimes :
    /\ group.class = "SequenceGroup"
    /\ fTime' = t
    /\ fOut' = sequenceEvaluate(group.entries, R(t))
    /\ fDone' = TRUE
    /\ fOrder' = orderAfter(t)
    /\ UNCHANGED <<fCall, group, notF>>

NextFlow == EvaluateGroup \/ EvaluateSequence

SpecFlow == InitFlow /\ [][NextFlow]_vars

\* The groups of the runs that record the order of the evaluate() calls.
ReplayCalls ==
  {c \in FlowCalls :
     Len(c.items) <= (IF c.op \in {"parallel", "sequence"}
                      THEN MaxItems - 1 ELSE MaxItems - 2)}

InitFlowReplay ==
  /\ fCall \in ReplayCalls
  /\ group = construct(fCall)
  /\ fTime = 0
  /\ fOut = <<>>
  /\ fDone = FALSE
  /\ fOrder = "first"
  /\ IdleNotF

SpecFlowReplay == InitFlowReplay /\ [][NextFlow]_vars

(***************************************************************************)
(* Claims about keyframe interpolation.                                    *)
(***************************************************************************)
\* The local time the claims speak of: time - start - delay - index*stagger.
kRawLocal == kTime - kSpec.start - kSpec.delay - kIndex * kSpec.stagger

kCount == Len(kSpec.keyframes)

kDuration ==
  IF kSpec.durationSet THEN kSpec.duration ELSE kSpec.keyframes[kCount].time

StrictlyAscending(keyframes) ==
  \A i \in 1 .. Len(keyframes) - 1 : keyframes[i].time < keyframes[i + 1].time

\* C5 as stated: with at least two ascending keyframes, a sample whose local
\* time equals a keyframe's own time returns exactly that keyframe's value,
\* whatever the duration, loop and repeatDelay of the spec.
C5_ExactAtKeyframeAlways ==
  (kDone /\ kCount >= 2 /\ StrictlyAscending(kSpec.keyframes)) =>
    \A i \in 1 .. kCount :
      kRawLocal = kSpec.keyframes[i].time => kValue = R(kSpec.keyframes[i].value)

\* C5 amended: with at least two keyframes at strictly ascending times, a
\* sample whose local time equals a keyframe's own time k returns exactly that
\* keyframe's value provided 0 <= k <= duration (the last keyframe's time when
\* the spec has no duration) and, when the spec loops with
\* duration + repeatDelay > 0, k < duration + repeatDelay.
C5_ExactAtKeyframeInRun ==
  (kDone /\ kCount >= 2 /\ StrictlyAscending(kSpec.keyframes)) =>
    \A i \in 1 .. kCount :
      LET k == kSpec.keyframes[i].time
      IN  (/\ kRawLocal = k
           /\ 0 <= k /\ k <= kDuration
           /\ (kSpec.loop /\ kDuration + kSpec.repeatDelay > 0)
                => k < kDuration + kSpec.repeatDelay)
            => kValue = R(kSpec.keyframes[i].value)

\* C5 witness: a looping three-keyframe spec sampled at the time of its middle
\* keyframe, whose value differs from both neighbours'.
C5_Witness ==
  /\ kDone /\ kCount = 3 /\ StrictlyAscending(kSpec.keyframes)
  /\ kSpec.loop /\ kSpec.durationSet /\ kSpec.delay = 1
  /\ kRawLocal = kSpec.keyframes[2].time
  /\ kRawLocal > 0 /\ kRawLocal < kDuration + kSpec.repeatDelay
  /\ kSpec.keyframes[2].value # kSpec.keyframes[1].value
  /\ kSpec.keyframes[2].value # kSpec.keyframes[3].value
  /\ kValue = R(kSpec.keyframes[2].value)

\* C6 as stated: for a non-looping keyframe-driven spec every local time
\* before the first keyframe's time yields the first keyframe's value and
\* every local time at or after the last keyframe's time yields the last
\* keyframe's value.
C6_ClampOutsideAlways ==
  (kDone /\ ~kSpec.loop /\ StrictlyAscending(kSpec.keyframes)) =>
    /\ kRawLocal < kSpec.keyframes[1].time => kValue = R(kSpec.keyframes[1].value)
    /\ kRawLocal >= kSpec.keyframes[kCount].time
         => kValue = R(kSpec.keyframes[kCount].value)

\* C6 amended: for a non-looping keyframe-driven spec with strictly ascending
\* keyframe times, every local time before the first keyframe's time yields
\* the first keyframe's value provided that time is >= 0, and every local
\* time at or after the last keyframe's time yields the last keyframe's value
\* provided the spec's duration is absent or >= the last keyframe's time.
C6_ClampOutsideInRun ==
  (kDone /\ ~kSpec.loop /\ StrictlyAscending(kSpec.keyframes)) =>
    /\ (kRawLocal < kSpec.keyframes[1].time /\ kSpec.keyframes[1].time >= 0)
         => kValue = R(kSpec.keyframes[1].value)
    /\ (kRawLocal >= kSpec.keyframes[kCount].time
        /\ kDuration >= kSpec.keyframes[kCount].time)
         => kValue = R(kSpec.keyframes[kCount].value)

\* C6 witness: a non-looping spec whose first keyframe lies after time 0,
\* sampled at a positive local time before that keyframe.
C6_Witness ==
  /\ kDone /\ ~kSpec.loop /\ kCount >= 2 /\ StrictlyAscending(kSpec.keyframes)
  /\ kRawLocal > 0 /\ kRawLocal < kSpec.keyframes[1].time
  /\ kSpec.keyframes[1].value # kSpec.keyframes[2].value
  /\ kValue = R(kSpec.keyframes[1].value)

\* A second reachable case of C6: a sample after the last keyframe.
C6_WitnessAfter ==
  /\ kDone /\ ~kSpec.loop /\ kCount >= 2 /\ StrictlyAscending(kSpec.keyframes)
  /\ kRawLocal > kSpec.keyframes[kCount].time
  /\ kDuration >= kSpec.keyframes[kCount].time
  /\ kSpec.keyframes[kCount].value # kSpec.keyframes[kCount - 1].value
  /\ kValue = R(kSpec.keyframes[kCount].value)

(***************************************************************************)
(* Claims about the flow combinators.                                      *)
(***************************************************************************)
\* The shapes an item stands for, in order: a thunk stands for what it
\* returns, an array for its elements.
RECURSIVE LeafIds(_)
LeafIds(item) ==
  IF item.kind = "thunk" THEN LeafIds(item.returns)
  ELSE IF item.kind = "array"
    THEN [i \in 1 .. Len(item.elems) |-> item.elems[i].id]
  ELSE <<item.id>>

\* The instances of an item evaluated at one time.
InstancesAt(item, time) ==
  [i \in 1 .. Len(LeafIds(item)) |-> [shape |-> LeafIds(item)[i], time |-> time]]

RECURSIVE ConcatTo(_, _)
ConcatTo(f, n) == IF n = 0 THEN <<>> ELSE ConcatTo(f, n - 1) \o f[n]

RECURSIVE SumDurations(_, _)
SumDurations(items, n) ==
  IF n = 0 THEN Zero
  ELSE RAdd(SumDurations(items, n - 1), durationOfItem(items[n]))

fCount == Len(fCall.items)

\* Every child of the call evaluated at the same local time, in input order.
AllAt(time) ==
  ConcatTo([k \in 1 .. fCount |-> InstancesAt(fCall.items[k], time)], fCount)

\* C7: sequence(items...) gives item k the offset equal to the sum of the
\* estimated durations of the items before it; evaluate(t) takes nothing from
\* item k when t < offset_k and otherwise evaluates item k at t - offset_k.
C7_SequenceOffsets ==
  fCall.op = "sequence" =>
    /\ Len(group.entries) = fCount
    /\ \A k \in 1 .. fCount :
         /\ group.entries[k].item = fCall.items[k]
         /\ group.entries[k].offset = SumDurations(fCall.items, k - 1)
    /\ fDone =>
         fOut = ConcatTo(
                  [k \in 1 .. fCount |->
                     LET offset == SumDurations(fCall.items, k - 1)
                     IN  IF RLt(R(fTime), offset) THEN <<>>
                         ELSE InstancesAt(fCall.items[k], RSub(R(fTime), offset))],
                  fCount)

\* C7 witness: a sequence of three items with positive durations, evaluated
\* after the second item has started and before the third one starts.
C7_Witness ==
  /\ fCall.op = "sequence" /\ fDone /\ fCount = 3
  /\ RLt(Zero, durationOfItem(fCall.items[1]))
  /\ RLt(Zero, durationOfItem(fCall.items[2]))
  /\ \A k \in 1 .. 3 : LeafIds(fCall.items[k]) # <<>>
  /\ RLt(SumDurations(fCall.items, 1), R(fTime))
  /\ RLt(R(fTime), SumDurations(fCall.items, 2))
  /\ fOut = InstancesAt(fCall.items[1], R(fTime))
              \o InstancesAt(fCall.items[2],
                             RSub(R(fTime), SumDurations(fCall.items, 1)))

\* C8: on(startRef, items...) yields no instance at any t < resolvedStart and,
\* at every t >= resolvedStart, the items evaluated at t - resolvedStart; with
\* "scene+2" it is empty at t = 1 and evaluates the items at local time 0 at
\* t = 2.
C8_OnShiftsTime ==
  (fCall.op = "on" /\ fDone) =>
    LET resolvedStart == resolveStart(fCall.start, Zero)
    IN  /\ IF RLt(R(fTime), resolvedStart) THEN fOut = <<>>
           ELSE fOut = AllAt(RSub(R(fTime), resolvedStart))
        /\ fCall.start = StringRef(SceneText \o <<"+", "2">>) =>
             /\ fTime = 1 => fOut = <<>>
             /\ fTime = 2 => fOut = AllAt(Zero)

\* C8 witness: on("scene+2", ...) with items, evaluated at t = 2: every
\* instance carries local time 0.
C8_Witness ==
  /\ fCall.op = "on" /\ fDone
  /\ fCall.start = StringRef(SceneText \o <<"+", "2">>)
  /\ fTime = 2
  /\ Len(fOut) >= 2
  /\ \A i \in 1 .. Len(fOut) : fOut[i].time = Zero

\* A second reachable case of C8: the same group one step before its start.
C8_WitnessBefore ==
  /\ fCall.op = "on" /\ fDone
  /\ fCall.start = StringRef(SceneText \o <<"+", "2">>)
  /\ fTime = 1
  /\ AllAt(Zero) # <<>>
  /\ fOut = <<>>

ConditionHolds(condition, time) ==
  IF condition.type = "function" THEN time \in condition.trueAt
  ELSE condition.value

\* C9: when(predicate, items...) returns an empty list at every time at which
\* the predicate (a boolean or a function of time) is false, and where it is
\* true exactly what parallel(items...) returns at that time.
C9_WhenGates ==
  (fCall.op = "when" /\ fDone) =>
    IF ConditionHolds(fCall.condition, R(fTime))
      THEN fOut = evaluate(parallel(fCall.items), R(fTime))
      ELSE fOut = <<>>

\* C9 witness: a when() whose predicate is a function of time that is false
\* at some time, evaluated at a time where it is true, with instances.
C9_Witness ==
  /\ fCall.op = "when" /\ fDone
  /\ fCall.condition.type = "function"
  /\ R(fTime) \in fCall.condition.trueAt
  /\ \E t \in FlowTimes : R(t) \notin fCall.condition.trueAt
  /\ fTime > 0
  /\ fOut # <<>>

\* A second reachable case of C9: a false boolean predicate hides the items.
C9_WitnessFalse ==
  /\ fCall.op = "when" /\ fDone
  /\ fCall.condition = BooleanCondition(FALSE)
  /\ AllAt(Zero) # <<>>
  /\ fOut = <<>>

\* C10: parallel(items...).evaluate(t) evaluates every child at the same time
\* t and returns the children's results concatenated in input order.
C10_ParallelConcat ==
  (fCall.op = "parallel" /\ fDone) => fOut = AllAt(R(fTime))

\* C10 witness: a parallel group of three different children, one of them an
\* array or a thunk, evaluated after time 0.
C10_Witness ==
  /\ fCall.op = "parallel" /\ fDone /\ fCount = 3
  /\ fTime > 0
  /\ fCall.items[1] # fCall.items[2] /\ fCall.items[2] # fCall.items[3]
  /\ \E k \in 1 .. 3 : fCall.items[k].kind # "shape"
  /\ Len(fOut) >= 4
  /\ \A i \in 1 .. Len(fOut) : fOut[i].time = R(fTime)

(***************************************************************************)
(* C11: evaluating a flow group is pure.  After any calls of evaluate, at  *)
(* any times and in any order, the group still has the items, predicate,   *)
(* offset and entries it was built with, and the last call returned what   *)
(* a freshly built group returns at that time; so two calls at the same    *)
(* time return the same instances.                                         *)
(***************************************************************************)
C11_EvaluatePure ==
  /\ group = construct(fCall)
  /\ fDone => fOut = evaluate(construct(fCall), R(fTime))

\* A call that went back in time on a group, and returned instances.
C11_Witness ==
  /\ fDone
  /\ fOrder = "earlier"
  /\ fCall.op = "on"
  /\ fOut # <<>>

\* A call repeated at the same time on a sequence.
C11_WitnessSame ==
  /\ fDone
  /\ fOrder = "same"
  /\ fCall.op = "sequence"
  /\ Len(fOut) >= 2

(***************************************************************************)
(* Time references (renderer).  The renderer resolves the start of its     *)
(* animation specs with functions of its own.                              *)
(***************************************************************************)
\* parseOffset that reads nothing: every suffix is ignored.
renderParseOffset_ignoreAll(base, offset) == base

\* parseOffset that reads the leading numeral and ignores what follows it.
renderParseOffset_prefix(base, offset) ==
  LET ends == {n \in 2 .. Len(offset) : matchesOffset(SubSeq(offset, 1, n))}
  IN  IF ends = {} THEN base
      ELSE LET n == CHOOSE m \in ends : \A k \in ends : k <= m
           IN  RAdd(base, numberOf(SubSeq(offset, 1, n)))

renderParseOffset(base, offset) ==
  IF Len(offset) = 0 THEN base
  ELSE IF matchesOffset(offset) THEN RAdd(base, numberOf(offset))
  ELSE base

\* The renderer's resolveStart taking 0 for the baseline of 'prev.end'.
renderResolveStart_sceneBase(start, prevEnd) ==
  IF start.type = "number" THEN start.num
  ELSE IF start.type = "undefined" THEN Zero
  ELSE IF startsWith(stripWhitespace(start.text), SceneText)
    THEN renderParseOffset(Zero, slice(stripWhitespace(start.text), Len(SceneText)))
  ELSE IF startsWith(stripWhitespace(start.text), PrevEndText)
    THEN renderParseOffset(Zero, slice(stripWhitespace(start.text), Len(PrevEndText)))
  ELSE Zero

renderResolveStart(start, prevEnd) ==
  CASE start.type \in {"number", "undefined"} ->
         IF start.type = "undefined" THEN Zero ELSE start.num
    [] OTHER ->
         LET s == stripWhitespace(start.text)
         IN  CASE startsWith(s, SceneText) ->
                    renderParseOffset(Zero, slice(s, Len(SceneText)))
               [] startsWith(s, PrevEndText) /\ ~startsWith(s, SceneText) ->
                    renderParseOffset(prevEnd, slice(s, Len(PrevEndText)))
               [] OTHER -> Zero

(***************************************************************************)
(* Inputs of resolveStart: a prefix, with or without blanks, followed by   *)
(* every text of up to MaxSuffix characters of the offset alphabet; the    *)
(* references the documentation gives; numbers and undefined.              *)
(***************************************************************************)
OffsetAlphabet == {"+", "-", "1", "5", ".", " "}

Suffixes == UNION {[1 .. n -> OffsetAlphabet] : n \in 0 .. MaxSuffix}

Prefixes ==
  {SceneText, PrevEndText, <<"s", "c", " ", "e", "n", "e">>}

ScenePlus200 == <<"s", "c", "e", "n", "e", " ", "+", " ", "2", "0", "0">>

PrevEndMinus150_5 ==
  <<"p", "r", "e", "v", ".", "e", "n", "d", "-", "1", "5", "0", ".", "5">>

ResolveRefs ==
  {StringRef(p \o x) : p \in Prefixes, x \in Suffixes}
    \cup {StringRef(ScenePlus200), StringRef(PrevEndMinus150_5),
          StringRef(<<"s", "c", "e", "n", "e", "+", "1", "x">>),
          StringRef(<<"s", "c", "e", "n", "e", "r", "y">>),
          StringRef(<<"e", "n", "d", "+", "1">>),
          StringRef(<<"p", "r", "e", "v", ".", "e", "n", "d", "+", "1", "e", "1">>),
          UndefinedRef, NumberRef(R(7)), NumberRef(<<-3, 2>>)}

PrevEnds == {R(3), <<-5, 2>>}

InitResolve ==
  /\ sRef \in ResolveRefs
  /\ sPrevEnd \in PrevEnds
  /\ sFlow = Zero
  /\ sRender = Zero
  /\ sFlowDone = FALSE
  /\ sRenderDone = FALSE
  /\ IdleNotS

\* resolveStart(start, prevEnd) of the flow composer.
ResolveFlow ==
  /\ sFlowDone = FALSE
  /\ sFlow' = resolveStart(sRef, sPrevEnd)
  /\ sFlowDone' = TRUE
  /\ UNCHANGED <<sRef, sPrevEnd, sRender, sRenderDone, notS>>

\* resolveStart(start, prevEnd) of the renderer.
ResolveRender ==
  /\ sRenderDone = FALSE
  /\ sRender' = renderResolveStart(sRef, sPrevEnd)
  /\ sRenderDone' = TRUE
  /\ UNCHANGED <<sRef, sPrevEnd, sFlow, sFlowDone, notS>>

NextResolve == ResolveFlow \/ ResolveRender

SpecResolve == InitResolve /\ [][NextResolve]_vars

(***************************************************************************)
(* Colour model (renderer).  A number is a rational or NaN; a colour text  *)
(* is a sequence of one-character strings.                                 *)
(***************************************************************************)
NaN == <<0, 0>>

IsNaN(x) == x[2] = 0

UpperCase ==
  <<"A", "B", "C", "D", "E", "F", "G", "H", "I", "J", "K", "L", "M",
    "N", "O", "P", "Q", "R", "S", "T", "U", "V", "W", "X", "Y", "Z">>

LowerCase ==
  <<"a", "b", "c", "d", "e", "f", "g", "h", "i", "j", "k", "l", "m",
    "n", "o", "p", "q", "r", "s", "t", "u", "v", "w", "x", "y", "z">>

\* String.prototype.toLowerCase
toLowerCase(s) ==
  [i \in 1 .. Len(s) |->
     IF \E j \in 1 .. 26 : UpperCase[j] = s[i]
       THEN LowerCase[CHOOSE j \in 1 .. 26 : UpperCase[j] = s[i]]
     ELSE s[i]]

\* String.prototype.trimStart
trimStart(s) ==
  LET kept == {i \in 1 .. Len(s) : s[i] \notin Whitespace}
  IN  IF kept = {} THEN <<>>
      ELSE SubSeq(s, CHOOSE i \in kept : \A j \in kept : i <= j, Len(s))

\* String.prototype.trim
trim(s) ==
  LET kept == {i \in 1 .. Len(s) : s[i] \notin Whitespace}
  IN  IF kept = {} THEN <<>>
      ELSE SubSeq(s, CHOOSE i \in kept : \A j \in kept : i <= j,
                     CHOOSE i \in kept : \A j \in kept : j <= i)

HexDigits ==
  <<"0", "1", "2", "3", "4", "5", "6", "7", "8", "9", "a", "b", "c", "d", "e", "f">>

IsHexDigit(c) == \E i \in 1 .. 16 : HexDigits[i] = toLowerCase(<<c>>)[1]

hexValue(c) == (CHOOSE i \in 1 .. 16 : HexDigits[i] = toLowerCase(<<c>>)[1]) - 1

RECURSIVE hexRun(_)
\* The longest prefix of hexadecimal digits.
hexRun(s) ==
  IF s = <<>> \/ ~IsHexDigit(Head(s)) THEN <<>> ELSE <<Head(s)>> \o hexRun(Tail(s))

RECURSIVE hexNumber(_)
hexNumber(s) ==
  IF s = <<>> THEN 0 ELSE 16 * hexNumber(SubSeq(s, 1, Len(s) - 1)) + hexValue(s[Len(s)])

\* The number the digits read give, NaN when there is none.
numberOfRun(negative, run) ==
  IF run = <<>> THEN NaN
  ELSE IF negative THEN R(-hexNumber(run))
  ELSE R(hexNumber(run))

\* The text after a "0x" at its start.
skipRadixPrefix(body) ==
  IF Len(body) >= 2 /\ body[1] = "0" /\ body[2] \in {"x", "X"}
    THEN slice(body, 2) ELSE body

parseSigned(t) ==
  IF t # <<>> /\ Head(t) \in {"+", "-"}
    THEN numberOfRun(Head(t) = "-", hexRun(skipRadixPrefix(Tail(t))))
  ELSE numberOfRun(FALSE, hexRun(skipRadixPrefix(t)))

\* parseInt(text, 16): leading blanks, a sign and "0x" are skipped, the
\* digits that follow are read, and no digit gives NaN.
parseInt16(text) == parseSigned(trimStart(text))

\* Number(text) of a regular-expression capture.
Number(text) == IF IsDigits(text) THEN R(DigitsValue(text)) ELSE NaN

named ==
  {[name |-> <<"r", "e", "d">>, rgb |-> <<255, 0, 0>>],
   [name |-> <<"b", "l", "u", "e">>, rgb |-> <<0, 0, 255>>],
   [name |-> <<"g", "r", "e", "e", "n">>, rgb |-> <<0, 128, 0>>],
   [name |-> <<"b", "l", "a", "c", "k">>, rgb |-> <<0, 0, 0>>],
   [name |-> <<"w", "h", "i", "t", "e">>, rgb |-> <<255, 255, 255>>],
   [name |-> <<"y", "e", "l", "l", "o", "w">>, rgb |-> <<255, 255, 0>>],
   [name |-> <<"c", "y", "a", "n">>, rgb |-> <<0, 255, 255>>],
   [name |-> <<"m", "a", "g", "e", "n", "t", "a">>, rgb |-> <<255, 0, 255>>],
   [name |-> <<"g", "r", "a", "y">>, rgb |-> <<128, 128, 128>>]}

\* named[s] also finds what every object inherits; these values are truthy
\* and cannot be destructured as an array.
ObjectPrototypeKeys ==
  {<<"c", "o", "n", "s", "t", "r", "u", "c", "t", "o", "r">>,
   <<"_", "_", "p", "r", "o", "t", "o", "_", "_">>}

\* The elements of /rgb\\((\\d+),\\s*(\\d+),\\s*(\\d+)\\)/ as the pattern is
\* written: each doubled backslash is a literal backslash, so the letters d
\* and s after it are literal too and the parentheses only group.
Lit(c) == [ch |-> c, rep |-> "one"]

OneOrMore(c) == [ch |-> c, rep |-> "plus"]

ZeroOrMore(c) == [ch |-> c, rep |-> "star"]

RgbPattern ==
  <<Lit("r"), Lit("g"), Lit("b"), Lit("\\"),
    Lit("\\"), OneOrMore("d"), Lit(","), Lit("\\"), ZeroOrMore("s"),
    Lit("\\"), OneOrMore("d"), Lit(","), Lit("\\"), ZeroOrMore("s"),
    Lit("\\"), OneOrMore("d"), Lit("\\")>>

RECURSIVE runOf(_, _, _)
\* How many times c is repeated in s from pos on.
runOf(s, pos, c) ==
  IF pos > Len(s) \/ s[pos] # c THEN 0 ELSE 1 + runOf(s, pos + 1, c)

\* How many characters an element of the pattern takes of a run of n of
\* its character, or -1 when it does not match.
takenBy(rep, n) ==
  IF rep = "one" THEN (IF n >= 1 THEN 1 ELSE -1)
  ELSE IF rep = "plus" THEN (IF n >= 1 THEN n ELSE -1)
  ELSE n

RECURSIVE matchFrom(_, _, _, _)
RECURSIVE matchNext(_, _, _, _, _)
\* The positions after each element of the pattern matched from pos on, or
\* <<>> when the pattern does not match there.  No repetition is followed
\* by its own character, so the greedy match is the only one.
matchFrom(s, pos, k, ends) ==
  IF k > Len(RgbPattern) THEN ends
  ELSE matchNext(s, pos, k, ends,
                 takenBy(RgbPattern[k].rep, runOf(s, pos, RgbPattern[k].ch)))

matchNext(s, pos, k, ends, taken) ==
  IF taken < 0 THEN <<>>
  ELSE matchFrom(s, pos + taken, k + 1, Append(ends, pos + taken))

\* The whole of the outer group and the three inner groups.
capturesOf(s, ends) ==
  <<SubSeq(s, ends[4], ends[17] - 1), SubSeq(s, ends[4], ends[6] - 1),
    SubSeq(s, ends[9], ends[11] - 1), SubSeq(s, ends[14], ends[16] - 1)>>

firstMatch(s, starts) ==
  IF starts = {} THEN <<>>
  ELSE capturesOf(s, matchFrom(s, CHOOSE j \in starts : \A k \in starts : j <= k,
                               1, <<>>))

\* s.match(...): the captures of the leftmost match, or <<>>.
matchRgb(s) == firstMatch(s, {i \in 1 .. Len(s) : matchFrom(s, i, 1, <<>>) # <<>>})

Parsed(r, g, b) == [tag |-> "colour", r |-> r, g |-> g, b |-> b]

Null == [tag |-> "null", r |-> NaN, g |-> NaN, b |-> NaN]

TypeError == [tag |-> "TypeError", r |-> NaN, g |-> NaN, b |-> NaN]

namedColour(n) == Parsed(R(n.rgb[1]), R(n.rgb[2]), R(n.rgb[3]))

hex3(hex) ==
  Parsed(parseInt16(<<hex[1], hex[1]>>), parseInt16(<<hex[2], hex[2]>>),
         parseInt16(<<hex[3], hex[3]>>))

hex6(hex) ==
  Parsed(parseInt16(SubSeq(hex, 1, 2)), parseInt16(SubSeq(hex, 3, 4)),
         parseInt16(SubSeq(hex, 5, 6)))

fromMatch(m) ==
  IF m # <<>> THEN Parsed(Number(m[1]), Number(m[2]), Number(m[3])) ELSE Null

\* parseColor on s = input.trim().toLowerCase()
parseLowered(s) ==
  IF \E n \in named : n.name = s
    THEN namedColour(CHOOSE n \in named : n.name = s)
  ELSE IF s \in ObjectPrototypeKeys THEN TypeError
  ELSE IF startsWith(s, <<"#">>) /\ Len(s) = 4 THEN hex3(slice(s, 1))
  ELSE IF startsWith(s, <<"#">>) /\ Len(s) = 7 THEN hex6(slice(s, 1))
  ELSE fromMatch(matchRgb(s))

parseColor(input) == parseLowered(toLowerCase(trim(input)))

\* Math.round: the nearest integer, a half going up.
round(x) == IF IsNaN(x) THEN NaN ELSE R((2 * x[1] + x[2]) \div (2 * x[2]))

\* lerp on numbers that may be NaN.
lerpNumber(a, b, t) == IF IsNaN(a) \/ IsNaN(b) \/ IsNaN(t) THEN NaN ELSE lerp(a, b, t)

RECURSIVE digitsOf(_)
digitsOf(n) ==
  IF n < 10 THEN <<CHOOSE c \in Digits : DigitValue(c) = n>>
  ELSE Append(digitsOf(n \div 10), CHOOSE c \in Digits : DigitValue(c) = n % 10)

\* `${n}` of an integer or NaN.
toString(x) ==
  IF IsNaN(x) THEN <<"N", "a", "N">>
  ELSE IF x[1] < 0 THEN <<"-">> \o digitsOf(-x[1])
  ELSE digitsOf(x[1])

\* `rgb(${r}, ${g}, ${bl})`
rgbText(r, g, b) ==
  <<"r", "g", "b", "(">> \o toString(r) \o <<",", " ">> \o toString(g)
    \o <<",", " ">> \o toString(b) \o <<")">>

\* lerpColor once both colours are parsed.
mix(ca, cb, a, t) ==
  IF ca.tag = "TypeError" \/ cb.tag = "TypeError"
    THEN [threw |-> TRUE, text |-> <<>>]
  ELSE IF ca.tag = "null" \/ cb.tag = "null"
    THEN [threw |-> FALSE, text |-> a]
  ELSE [threw |-> FALSE,
        text |-> rgbText(round(lerpNumber(ca.r, cb.r, t)),
                         round(lerpNumber(ca.g, cb.g, t)),
                         round(lerpNumber(ca.b, cb.b, t)))]

\* lerpColor(a, b, t): the text returned, or that parseColor threw.
lerpColor(a, b, t) == mix(parseColor(a), parseColor(b), a, t)

(***************************************************************************)
(* Claims about resolveStart.                                              *)
(***************************************************************************)
\* The reference without its blanks.
sText == SelectSeq(sRef.text, LAMBDA c : c # " " /\ c # "\t" /\ c # "\n")

sHasPrefix(prefix) ==
  /\ sRef.type = "string"
  /\ Len(sText) >= Len(prefix)
  /\ \A i \in 1 .. Len(prefix) : sText[i] = prefix[i]

\* The text after the prefix, and the base the prefix stands for.
sSuffix(prefix) == [i \in 1 .. Len(sText) - Len(prefix) |-> sText[i + Len(prefix)]]

sBase(prefix) == IF prefix = SceneText THEN Zero ELSE sPrevEnd

\* A sign, digits, and possibly a point and digits: k is the last digit of
\* the integer part.
NumeralSplits(x) ==
  {k \in 2 .. Len(x) :
     /\ x[1] \in {"+", "-"}
     /\ \A i \in 2 .. k : x[i] \in Digits
     /\ \/ k = Len(x)
        \/ /\ k + 2 <= Len(x)
           /\ x[k + 1] = "."
           /\ \A i \in k + 2 .. Len(x) : x[i] \in Digits}

RECURSIVE PlaceSum(_, _, _)
PlaceSum(x, k, i) ==
  IF i > Len(x) THEN Zero
  ELSE IF i <= k
    THEN RAdd(R(DigitValue(x[i]) * Pow10(k - i)), PlaceSum(x, k, i + 1))
  ELSE IF i = k + 1 THEN PlaceSum(x, k, i + 1)
  ELSE RAdd(<<DigitValue(x[i]), Pow10(i - k - 1)>>, PlaceSum(x, k, i + 1))

\* The number a signed numeral denotes.
NumeralValue(x) ==
  LET k == CHOOSE j \in NumeralSplits(x) : TRUE
      magnitude == PlaceSum(x, k, 2)
  IN  IF x[1] = "-" THEN RSub(Zero, magnitude) ELSE magnitude

(***************************************************************************)
(* C12: resolveStart on a string reference strips the whitespace and, when *)
(* the text after the "scene" or "prev.end" prefix is a signed numeral,    *)
(* returns the base plus that number: base 0 for "scene", prevEnd for      *)
(* "prev.end".  "scene + 200" gives 200 and "prev.end-150.5" gives         *)
(* prevEnd - 150.5.  Both resolveStart functions do so.                    *)
(***************************************************************************)
C12_SignedOffset ==
  /\ \A prefix \in {SceneText, PrevEndText} :
       (sHasPrefix(prefix) /\ NumeralSplits(sSuffix(prefix)) # {}) =>
         LET expected == RAdd(sBase(prefix), NumeralValue(sSuffix(prefix)))
         IN  /\ sFlowDone => sFlow = expected
             /\ sRenderDone => sRender = expected
  /\ sRef.text = ScenePlus200 =>
       /\ sFlowDone => sFlow = R(200)
       /\ sRenderDone => sRender = R(200)
  /\ sRef.text = PrevEndMinus150_5 =>
       /\ sFlowDone => sFlow = RSub(sPrevEnd, <<301, 2>>)
       /\ sRenderDone => sRender = RSub(sPrevEnd, <<301, 2>>)

\* Both functions resolved a text like "prev.end - 15" against prevEnd.
C12_Witness ==
  /\ sFlowDone /\ sRenderDone
  /\ sHasPrefix(PrevEndText)
  /\ Len(sRef.text) > Len(sText)
  /\ NumeralSplits(sSuffix(PrevEndText)) # {}
  /\ sSuffix(PrevEndText)[1] = "-"
  /\ sFlow = RAdd(sPrevEnd, NumeralValue(sSuffix(PrevEndText)))
  /\ sFlow # sPrevEnd

\* The documented examples were resolved.
C12_WitnessExamples ==
  /\ sFlowDone /\ sRenderDone
  /\ sRef.text = PrevEndMinus150_5
  /\ sPrevEnd = R(3)
  /\ sRender = <<-295, 2>>

(***************************************************************************)
(* C13: resolveStart never fails, and a suffix that is not a sign, digits  *)
(* and an optional point and digits is ignored: the result is exactly the  *)
(* base, 0 for "scene" and prevEnd for "prev.end".                         *)
(***************************************************************************)
C13_MalformedIgnored ==
  \A prefix \in {SceneText, PrevEndText} :
    (sHasPrefix(prefix) /\ NumeralSplits(sSuffix(prefix)) = {}) =>
      /\ sFlowDone => sFlow = sBase(prefix)
      /\ sRenderDone => sRender = sBase(prefix)

\* A suffix that starts as a numeral and goes on was ignored as a whole.
C13_Witness ==
  /\ sFlowDone /\ sRenderDone
  /\ sHasPrefix(PrevEndText)
  /\ Len(sSuffix(PrevEndText)) >= 3
  /\ NumeralSplits(sSuffix(PrevEndText)) = {}
  /\ NumeralSplits(SubSeq(sSuffix(PrevEndText), 1, 2)) # {}
  /\ sFlow = sPrevEnd
  /\ sRender = sPrevEnd

(***************************************************************************)
(* Inputs of lerpColor: texts of the three documented forms, malformed     *)
(* texts, and every text of '#' and up to MaxHex characters of 0, f and g. *)
(***************************************************************************)
NamedTexts ==
  {<<"r", "e", "d">>, <<"g", "r", "e", "e", "n">>, <<"w", "h", "i", "t", "e">>,
   <<"b", "l", "a", "c", "k">>, <<"g", "r", "a", "y">>}

HexTexts ==
  {<<"#", "0", "0", "0", "0", "0", "0">>, <<"#", "f", "f", "f", "f", "f", "f">>,
   <<"#", "F", "F", "F">>, <<"#", "0", "8", "f">>,
   <<"#", "0", "0", "8", "0", "0", "0">>}

RgbBlack == <<"r", "g", "b", "(", "0", ",", "0", ",", "0", ")">>

RgbWhite ==
  <<"r", "g", "b", "(", "2", "5", "5", ",", " ", "2", "5", "5", ",", " ",
    "2", "5", "5", ")">>

RgbGreen == <<"r", "g", "b", "(", "0", ",", "1", "2", "8", ",", "0", ")">>

RgbTexts == {RgbBlack, RgbWhite, RgbGreen}

MalformedTexts ==
  {<<>>, <<"n", "o", "p", "e">>,
   <<"#", "0", "0", "0", "0", "0", "g">>, <<"#", "g", "g", "0", "0", "0", "0">>,
   <<"#", "-", "1", "-", "1", "-", "1">>, <<"#", "0", "x", "0", "x", "0", "x">>,
   <<"c", "o", "n", "s", "t", "r", "u", "c", "t", "o", "r">>,
   <<"_", "_", "p", "r", "o", "t", "o", "_", "_">>,
   <<"r", "g", "b", "\\", "\\", "d", ",", "\\", "\\", "d", ",", "\\", "\\", "d", "\\">>}

GeneratedTexts ==
  {<<"#">> \o x : x \in UNION {[1 .. n -> {"0", "f", "g"}] : n \in 0 .. MaxHex}}

FromTexts ==
  NamedTexts \cup HexTexts \cup RgbTexts \cup MalformedTexts \cup GeneratedTexts

ToTexts ==
  {<<"#", "f", "f", "f", "f", "f", "f">>, <<"w", "h", "i", "t", "e">>, RgbWhite,
   <<"#", "0", "8", "f">>, <<"#", "g", "g", "g">>, <<"n", "o", "p", "e">>,
   <<"c", "o", "n", "s", "t", "r", "u", "c", "t", "o", "r">>}

Quarters == {Norm(k, 4) : k \in -1 .. MaxQuarter}

InitColour ==
  /\ cFrom \in FromTexts
  /\ cTo \in ToTexts
  /\ cT \in Quarters
  /\ cOut = <<>>
  /\ cThrew = FALSE
  /\ cDone = FALSE
  /\ IdleNotC

\* lerpColor(from, to, t), as evalFill and keyframeColor call it.
LerpColor ==
  \E result \in {lerpColor(cFrom, cTo, cT)} :
    /\ cDone = FALSE
    /\ cOut' = result.text
    /\ cThrew' = result.threw
    /\ cDone' = TRUE
    /\ UNCHANGED <<cFrom, cTo, cT, notC>>

NextColour == LerpColor

SpecColour == InitColour /\ [][NextColour]_vars

(***************************************************************************)
(* Claims about colours.  The documentation gives three forms of colour:   *)
(* the names of the palette, '#' and three or six hexadecimal digits, and  *)
(* rgb(r,g,b) text.                                                        *)
(***************************************************************************)
NoColour == <<-1, -1, -1>>

\* The channels the documentation gives a text, or NoColour.
DocumentedColour(text) ==
  IF \E n \in named : n.name = text
    THEN (CHOOSE n \in named : n.name = text).rgb
  ELSE IF /\ Len(text) = 4
          /\ text[1] = "#"
          /\ \A i \in 2 .. 4 : IsHexDigit(text[i])
    THEN <<17 * hexValue(text[2]), 17 * hexValue(text[3]), 17 * hexValue(text[4])>>
  ELSE IF /\ Len(text) = 7
          /\ text[1] = "#"
          /\ \A i \in 2 .. 7 : IsHexDigit(text[i])
    THEN <<16 * hexValue(text[2]) + hexValue(text[3]),
           16 * hexValue(text[4]) + hexValue(text[5]),
           16 * hexValue(text[6]) + hexValue(text[7])>>
  ELSE IF text = RgbBlack THEN <<0, 0, 0>>
  ELSE IF text = RgbWhite THEN <<255, 255, 255>>
  ELSE IF text = RgbGreen THEN <<0, 128, 0>>
  ELSE NoColour

\* The integer nearest to a + (b - a) * t, a half going up.
NearestChannel(a, b, t) ==
  LET x == RAdd(R(a), RMul(R(b - a), t))
  IN  CHOOSE m \in -1024 .. 1024 :
        RLe(RSub(R(m), <<1, 2>>), x) /\ RLt(x, RAdd(R(m), <<1, 2>>))

InterpolatedText(ca, cb, t) ==
  rgbText(R(NearestChannel(ca[1], cb[1], t)), R(NearestChannel(ca[2], cb[2], t)),
          R(NearestChannel(ca[3], cb[3], t)))

(***************************************************************************)
(* C14: lerpColor on two parseable colours interpolates the R, G and B     *)
(* channels independently and linearly, rounds each to the nearest integer *)
(* (halves up) and returns "rgb(r, g, b)"; lerpColor("#000000", "#ffffff", *)
(* 0.5) is "rgb(128, 128, 128)".                                           *)
(***************************************************************************)
C14_InterpolatesParseable ==
  cDone =>
    /\ (DocumentedColour(cFrom) # NoColour /\ DocumentedColour(cTo) # NoColour) =>
         /\ ~cThrew
         /\ cOut = InterpolatedText(DocumentedColour(cFrom), DocumentedColour(cTo), cT)
    /\ (/\ cFrom = <<"#", "0", "0", "0", "0", "0", "0">>
        /\ cTo = <<"#", "f", "f", "f", "f", "f", "f">>
        /\ cT = <<1, 2>>) =>
         cOut = <<"r", "g", "b", "(", "1", "2", "8", ",", " ", "1", "2", "8",
                  ",", " ", "1", "2", "8", ")">>

\* The same on the names of the palette and the hexadecimal texts only.
C14_InterpolatesNamedAndHex ==
  (cFrom \notin RgbTexts /\ cTo \notin RgbTexts) => C14_InterpolatesParseable

\* Two hexadecimal colours interpolated at a half that rounds up.
C14_Witness ==
  /\ cDone
  /\ cFrom = <<"#", "0", "0", "0", "0", "0", "0">>
  /\ cTo = <<"#", "f", "f", "f", "f", "f", "f">>
  /\ cT = <<1, 2>>
  /\ cOut = <<"r", "g", "b", "(", "1", "2", "8", ",", " ", "1", "2", "8",
              ",", " ", "1", "2", "8", ")">>

(***************************************************************************)
(* C15: when from or to is not a colour of the three documented forms,     *)
(* '#' texts of three or six characters that are not all hexadecimal       *)
(* digits included, lerpColor returns from unchanged and does not throw.   *)
(***************************************************************************)
C15_UnparseableReturnsFrom ==
  (cDone /\ (DocumentedColour(cFrom) = NoColour \/ DocumentedColour(cTo) = NoColour)) =>
    /\ ~cThrew
    /\ cOut = cFrom

\* The same, leaving out the '#' texts of three or six characters and the
\* names every object inherits.
C15_OtherTextsReturnFrom ==
  LET odd(text) ==
        \/ toLowerCase(trim(text)) \in ObjectPrototypeKeys
        \/ Len(text) \in {4, 7} /\ text[1] = "#"
        \/ matchRgb(text) # <<>>
  IN  (~odd(cFrom) /\ ~odd(cTo)) => C15_UnparseableReturnsFrom

(***************************************************************************)
(* C16: parseColor accepts rgb(r,g,b) text as it accepts the other two     *)
(* forms: lerpColor on two rgb(r,g,b) texts returns what it returns on the *)
(* hexadecimal texts of the same colours.                                  *)
(***************************************************************************)
EquivalentHex(text) ==
  IF text = RgbBlack THEN <<"#", "0", "0", "0", "0", "0", "0">>
  ELSE IF text = RgbWhite THEN <<"#", "f", "f", "f", "f", "f", "f">>
  ELSE <<"#", "0", "0", "8", "0", "0", "0">>

C16_RgbTextInterpolates ==
  (cDone /\ cFrom \in RgbTexts /\ cTo \in RgbTexts) =>
    /\ ~cThrew
    /\ cOut = lerpColor(EquivalentHex(cFrom), EquivalentHex(cTo), cT).text

(***************************************************************************)
(* The Diagnostics store.  A listener is a function that records what it   *)
(* is called with and does nothing else; Date.now() is the ordinal of the  *)
(* operation.                                                              *)
(***************************************************************************)
getAll(store) == store.items

\* emit(): the calls made, one per subscription, in subscription order.
emit(store) ==
  [i \in 1 .. Len(store.listeners) |->
     [listener |-> store.listeners[i], items |-> getAll(store)]]

add(store, level, message, detail, now) ==
  LET pushed == [store EXCEPT !.items =
                   Append(@, [level |-> level, message |-> message,
                              detail |-> detail, time |-> now])]
  IN  [store |-> pushed, delivered |-> emit(pushed)]

\* addOnce that does not look the key up.
addOnce_noLookup(store, key, level, message, detail, now) ==
  add([store EXCEPT !.keys = @ \cup {key}], level, message, detail, now)

addOnce(store, key, level, message, detail, now) ==
  IF key \in store.keys THEN [store |-> store, delivered |-> <<>>]
  ELSE add([store EXCEPT !.keys = @ \cup {key}], level, message, detail, now)

\* clear() that empties the items and keeps the keys.
clear_keepKeys(store) ==
  [store |-> [store EXCEPT !.items = <<>>],
   delivered |-> emit([store EXCEPT !.items = <<>>])]

clear(store) ==
  LET emptied == [store EXCEPT !.items = <<>>, !.keys = {}]
  IN  [store |-> emptied, delivered |-> emit(emptied)]

\* on(listener)
onListener(store, listener) ==
  LET pushed == [store EXCEPT !.listeners = Append(@, listener)]
  IN  [store |-> pushed,
       delivered |-> <<[listener |-> listener, items |-> getAll(pushed)]>>]

\* The function on(listener) returns.
unsubscribe(store, listener) ==
  [store |-> [store EXCEPT !.listeners = SelectSeq(@, LAMBDA l : l # listener)],
   delivered |-> <<>>]

Report(key, level, message, detail) ==
  [key |-> key, level |-> level, message |-> message, detail |-> detail]

\* What the callers of addOnce report: the renderer by classified message,
\* Text() by a fixed key.
Reports ==
  {Report("runtime:Runtime error", "error", "Runtime error", "TypeError"),
   Report("runtime:Runtime error", "error", "Runtime error", "RangeError"),
   Report("text-arg:type", "error", "Text() expects a string", "undefined"),
   Report("frame", "warn", "Slow frame", "undefined")}

Listeners == {"panel", "console"}

InitDiagnostics ==
  /\ diagnostics = EmptyStore
  /\ dDelivered = <<>>
  /\ dReports = <<>>
  /\ dPlain = FALSE
  /\ dCleared = {}
  /\ dOp = "none"
  /\ dOps = 0
  /\ IdleRenderer
  /\ IdleNotDR

AddOnce ==
  \E r \in Reports :
    LET result == addOnce(diagnostics, r.key, r.level, r.message, r.detail, dOps)
    IN  /\ dOps < MaxOps
        /\ diagnostics' = result.store
        /\ dDelivered' = result.delivered
        /\ dReports' = Append(dReports, r)
        /\ dOp' = "addOnce"
        /\ dOps' = dOps + 1
        /\ UNCHANGED <<dPlain, rvars, dCleared, notDR>>

Add ==
  LET result == add(diagnostics, "warn", "Slow frame", "undefined", dOps)
  IN  /\ dOps < MaxOps
      /\ diagnostics' = result.store
      /\ dDelivered' = result.delivered
      /\ dPlain' = TRUE
      /\ dOp' = "add"
      /\ dOps' = dOps + 1
      /\ UNCHANGED <<dReports, rvars, dCleared, notDR>>

Clear ==
  LET result == clear(diagnostics)
  IN  /\ dOps < MaxOps
      /\ diagnostics' = result.store
      /\ dDelivered' = result.delivered
      /\ dReports' = <<>>
      /\ dPlain' = FALSE
      /\ dCleared' = dCleared \cup {dReports[i].key : i \in 1 .. Len(dReports)}
      /\ dOp' = "clear"
      /\ dOps' = dOps + 1
      /\ UNCHANGED <<rvars, notDR>>

On ==
  \E l \in Listeners :
    LET result == onListener(diagnostics, l)
    IN  /\ dOps < MaxOps
        /\ diagnostics' = result.store
        /\ dDelivered' = result.delivered
        /\ dOp' = "on"
        /\ dOps' = dOps + 1
        /\ UNCHANGED <<dReports, dPlain, rvars, dCleared, notDR>>

\* A subscriber calls the function on() gave it.
Unsubscribe ==
  \E l \in Listeners :
    LET result == unsubscribe(diagnostics, l)
    IN  /\ dOps < MaxOps
        /\ \E i \in 1 .. Len(diagnostics.listeners) : diagnostics.listeners[i] = l
        /\ diagnostics' = result.store
        /\ dDelivered' = result.delivered
        /\ dOp' = "unsubscribe"
        /\ dOps' = dOps + 1
        /\ UNCHANGED <<dReports, dPlain, rvars, dCleared, notDR>>

NextDiagnostics == AddOnce \/ Add \/ Clear \/ On \/ Unsubscribe

SpecDiagnostics == InitDiagnostics /\ [][NextDiagnostics]_vars

(***************************************************************************)
(* Claims about the Diagnostics store.                                     *)
(***************************************************************************)
ReportedKeys(reports) == {reports[i].key : i \in 1 .. Len(reports)}

RECURSIVE FirstReports(_)
\* The reports whose key no earlier report had, in their order.
FirstReports(reports) ==
  IF reports = <<>> THEN <<>>
  ELSE LET front == SubSeq(reports, 1, Len(reports) - 1)
           last  == reports[Len(reports)]
       IN  IF last.key \in ReportedKeys(front) THEN FirstReports(front)
           ELSE Append(FirstReports(front), last)

(***************************************************************************)
(* C17: addOnce does nothing for a key that was reported before.  While    *)
(* only addOnce has added to the store since it was last empty, the store  *)
(* holds one item per distinct key, the one of the first report of the     *)
(* key, in the order of the first reports; and a call of addOnce calls the *)
(* listeners when it is the first report of its key and not otherwise.     *)
(***************************************************************************)
C17_AddOnceOncePerKey ==
  /\ dPlain = FALSE =>
       LET first == FirstReports(dReports)
       IN  /\ Len(diagnostics.items) = Cardinality(ReportedKeys(dReports))
           /\ Len(diagnostics.items) = Len(first)
           /\ \A i \in 1 .. Len(first) :
                /\ diagnostics.items[i].level = first[i].level
                /\ diagnostics.items[i].message = first[i].message
                /\ diagnostics.items[i].detail = first[i].detail
  /\ dOp = "addOnce" =>
       IF dReports[Len(dReports)].key
            \in ReportedKeys(SubSeq(dReports, 1, Len(dReports) - 1))
         THEN dDelivered = <<>>
       ELSE /\ Len(dDelivered) = Len(diagnostics.listeners)
            /\ \A i \in 1 .. Len(dDelivered) :
                 /\ dDelivered[i].listener = diagnostics.listeners[i]
                 /\ dDelivered[i].items = diagnostics.items

\* A key was reported again with another detail, after a second key, with a
\* listener subscribed: nothing was stored and nobody was called.
C17_Witness ==
  /\ dOp = "addOnce"
  /\ dPlain = FALSE
  /\ Len(dReports) = 3
  /\ dReports[3].key = dReports[1].key
  /\ dReports[3].detail # dReports[1].detail
  /\ dReports[2].key # dReports[1].key
  /\ Len(diagnostics.items) = 2
  /\ diagnostics.items[1].detail = dReports[1].detail
  /\ diagnostics.listeners # <<>>
  /\ dDelivered = <<>>

(***************************************************************************)
(* The Renderer: render(time) builds the scene at that time, draws its     *)
(* shapes in z order, and reports what the scene throws to Diagnostics.    *)
(***************************************************************************)
\* err.message.includes('is not defined')
NotDefinedMessages == {"foo is not defined", "bar is not defined"}

includesIsNotDefined(message) == message \in NotDefinedMessages

ErrorClasses == {"ReferenceError", "SyntaxError", "TypeError", "Error"}

\* err.stack ?? err.message
stackOrMessage(err) == IF err.stack # "undefined" THEN err.stack ELSE err.message

\* normalizeRuntimeError that does not tell the errors apart.
normalizeRuntimeError_allRuntime(err) ==
  [message |-> "Runtime error", detail |-> stackOrMessage(err)]

normalizeRuntimeError(err) ==
  IF err.class = "ReferenceError" /\ includesIsNotDefined(err.message)
    THEN [message |-> "Undefined identifier in DSL. Did you forget quotes around a string?",
          detail |-> stackOrMessage(err)]
  ELSE IF err.class = "SyntaxError"
    THEN [message |-> "Syntax error in DSL", detail |-> stackOrMessage(err)]
  ELSE IF err.class \in ErrorClasses
    THEN [message |-> "Runtime error", detail |-> stackOrMessage(err)]
  ELSE [message |-> "Runtime error", detail |-> err.message]

Instance(id, zIndex, image) == [id |-> id, zIndex |-> zIndex, image |-> image]

RECURSIVE sortByZ(_)
\* shapes.sort((a, b) => a.zIndex - b.zIndex), which is stable.
sortByZ(shapes) ==
  IF shapes = <<>> THEN <<>>
  ELSE LET rest == sortByZ(SubSeq(shapes, 1, Len(shapes) - 1))
           last == shapes[Len(shapes)]
           k    == Cardinality({i \in 1 .. Len(rest) : rest[i].zIndex <= last.zIndex})
       IN  SubSeq(rest, 1, k) \o <<last>> \o SubSeq(rest, k + 1, Len(rest))

\* Whether this.flatten(this.scene(time), time) throws.
sceneThrows(scene, time) == scene.failure # "none" /\ time >= scene.failsFrom

Errors ==
  {Thrown("ReferenceError", "foo is not defined", "ReferenceError: foo is not defined at scene"),
   Thrown("ReferenceError", "bar is not defined", "undefined"),
   Thrown("ReferenceError", "Cannot access 'a' before initialization", "undefined"),
   Thrown("SyntaxError", "Unexpected token", "SyntaxError: Unexpected token"),
   Thrown("SyntaxError", "foo is not defined", "undefined"),
   Thrown("TypeError", "foo is not defined", "TypeError: foo is not defined"),
   Thrown("string", "boom", "undefined")}

FrameTimes == {0, 1}

ShapeLists ==
  {<<>>,
   <<Instance(1, 2, "none"), Instance(2, 1, "none"), Instance(3, 2, "loaded")>>,
   <<Instance(4, 0, "loading")>>}

Scenes ==
  {SceneFn("none", 0, NoError, l) : l \in ShapeLists}
    \cup {SceneFn(f, t, e, ShapeListOf) :
            f \in {"factory", "evaluate"}, t \in FrameTimes, e \in Errors,
            ShapeListOf \in {<<Instance(1, 2, "none"), Instance(2, 1, "none")>>}}

InitRenderer ==
  /\ rScene \in Scenes
  /\ rCanvas \in {"sized", "unsized"}
  /\ rTime = 0
  /\ rDrawn = <<>>
  /\ rReturned = FALSE
  /\ rThrew = FALSE
  /\ rPending = FALSE
  /\ IdleDiagnostics
  /\ IdleNotDR

\* render(time)
Render ==
  \E time \in FrameTimes :
    /\ dOps < MaxOps
    /\ rTime' = time
    /\ dOp' = "render"
    /\ dOps' = dOps + 1
    /\ IF rCanvas = "unsized"
         THEN /\ rPending' = TRUE
              /\ rReturned' = FALSE
              /\ rDrawn' = <<>>
              /\ rThrew' = FALSE
              /\ dDelivered' = <<>>
              /\ UNCHANGED <<diagnostics, dReports>>
       ELSE IF sceneThrows(rScene, time)
         THEN LET err        == rScene.error
                  detail     == IF err.class \in ErrorClasses
                                  THEN stackOrMessage(err) ELSE err.message
                  normalized == normalizeRuntimeError(err)
                  key        == "runtime:" \o normalized.message
                  reported   == IF normalized.detail # "undefined"
                                  THEN normalized.detail ELSE detail
                  result     == addOnce(diagnostics, key, "error",
                                        normalized.message, reported, dOps)
              IN  /\ rPending' = FALSE
                  /\ diagnostics' = result.store
                  /\ dDelivered' = result.delivered
                  /\ dReports' = Append(dReports, Report(key, "error",
                                          normalized.message, reported))
                  /\ rReturned' = FALSE
                  /\ rDrawn' = <<>>
                  /\ rThrew' = FALSE
       ELSE LET shapes == sortByZ(rScene.shapes)
                pending == \E i \in 1 .. Len(shapes) : shapes[i].image = "loading"
            IN  /\ rDrawn' = shapes
                /\ rPending' = pending
                /\ rReturned' = ~pending
                /\ rThrew' = FALSE
                /\ dDelivered' = <<>>
                /\ UNCHANGED <<diagnostics, dReports>>
    /\ UNCHANGED <<rScene, rCanvas, dPlain, dCleared, notDR>>

\* setScene(scene)
SetScene ==
  \E scene \in Scenes :
    /\ dOps < MaxOps
    /\ rScene' = scene
    /\ dOp' = "setScene"
    /\ dOps' = dOps + 1
    /\ dDelivered' = <<>>
    /\ UNCHANGED <<diagnostics, dReports, dPlain, rCanvas, rTime, rDrawn,
                   rReturned, rThrew, rPending, dCleared, notDR>>

\* The page lays the canvas out, or hides it.
Resize ==
  /\ dOps < MaxOps
  /\ rCanvas' = IF rCanvas = "sized" THEN "unsized" ELSE "sized"
  /\ dOp' = "resize"
  /\ dOps' = dOps + 1
  /\ dDelivered' = <<>>
  /\ UNCHANGED <<diagnostics, dReports, dPlain, rScene, rTime, rDrawn,
                 rReturned, rThrew, rPending, dCleared, notDR>>

NextRenderer == Render \/ SetScene \/ Resize \/ Clear

SpecRenderer == InitRenderer /\ [][NextRenderer]_vars

(***************************************************************************)
(* Claims about the render boundary.                                       *)
(***************************************************************************)
\* The message each class of failure is reported with.
ClassifiedMessage(err) ==
  CASE err.class = "ReferenceError" /\ err.message \in NotDefinedMessages ->
         "Undefined identifier in DSL. Did you forget quotes around a string?"
    [] err.class = "SyntaxError" -> "Syntax error in DSL"
    [] OTHER -> "Runtime error"

ItemsWith(message) ==
  {i \in 1 .. Len(diagnostics.items) : diagnostics.items[i].message = message}

C18_WitnessTwoMessages ==
  /\ dOp = "render"
  /\ sceneThrows(rScene, rTime)
  /\ rScene.error.class = "SyntaxError"
  /\ Len(diagnostics.items) = 2
  /\ diagnostics.items[1].message = "Runtime error"
  /\ diagnostics.items[2].message = "Syntax error in DSL"

(***************************************************************************)
(* The distort modifier.  Shape.ts is not part of the sources at hand; the *)
(* mapping follows its documentation: the points of the shape, their       *)
(* bounding box, the position (u, v) of each point in the box, and the     *)
(* corner displacements weighted bilinearly.                               *)
(***************************************************************************)
Point(x, y) == <<x, y>>

CornerNames == {"tl", "tr", "br", "bl"}

\* Rect(width, height)
Rect(width, height) ==
  [kind |-> "rect", width |-> width, height |-> height, points |-> <<>>,
   closed |-> TRUE]

\* Polygon(points)
Polygon(points) ==
  [kind |-> "path", width |-> Zero, height |-> Zero, points |-> points,
   closed |-> TRUE]

\* The points of a shape: the corners [tl, tr, br, bl] of a rectangle about
\* its centre, the points of a path as they are.
pointsOf(shape) ==
  IF shape.kind = "rect"
    THEN LET hw == RDiv(shape.width, R(2))
             hh == RDiv(shape.height, R(2))
         IN  <<Point(RSub(Zero, hw), RSub(Zero, hh)), Point(hw, RSub(Zero, hh)),
               Point(hw, hh), Point(RSub(Zero, hw), hh)>>
  ELSE shape.points

RMin(a, b) == IF RLt(b, a) THEN b ELSE a

RECURSIVE boundsOf(_, _)
\* The bounding box of the points, starting from the box of one of them.
boundsOf(points, box) ==
  IF points = <<>> THEN box
  ELSE LET pt == Head(points)
       IN  boundsOf(Tail(points),
                    [minX |-> RMin(box.minX, pt[1]), maxX |-> RMax(box.maxX, pt[1]),
                     minY |-> RMin(box.minY, pt[2]), maxY |-> RMax(box.maxY, pt[2])])

boundingBox(points) ==
  boundsOf(points, [minX |-> points[1][1], maxX |-> points[1][1],
                    minY |-> points[1][2], maxY |-> points[1][2]])

\* (x - min) / (max - min), and 0 on an axis without extent.
normalize(x, min, max) ==
  IF max = min THEN Zero ELSE RDiv(RSub(x, min), RSub(max, min))

weightOf(corner, u, v) ==
  CASE corner = "tl" -> RMul(RSub(One, u), RSub(One, v))
    [] corner = "tr" -> RMul(u, RSub(One, v))
    [] corner = "br" -> RMul(u, v)
    [] corner = "bl" -> RMul(RSub(One, u), v)

\* The weights of a mapping that forgets the vertical position.
weightOf_noV(corner, u, v) ==
  CASE corner = "tl" -> RSub(One, u)
    [] corner = "tr" -> u
    [] corner = "br" -> Zero
    [] corner = "bl" -> Zero

displace_noV(pt, box, corners) ==
  LET u == normalize(pt[1], box.minX, box.maxX)
      v == normalize(pt[2], box.minY, box.maxY)
      sum(axis) ==
        RAdd(RAdd(RMul(weightOf_noV("tl", u, v), corners["tl"][axis]),
                  RMul(weightOf_noV("tr", u, v), corners["tr"][axis])),
             RAdd(RMul(weightOf_noV("br", u, v), corners["br"][axis]),
                  RMul(weightOf_noV("bl", u, v), corners["bl"][axis])))
  IN  Point(RAdd(pt[1], sum(1)), RAdd(pt[2], sum(2)))

\* The point moved by the weighted sum of the corner displacements.
displace(pt, box, corners) ==
  LET u == normalize(pt[1], box.minX, box.maxX)
      v == normalize(pt[2], box.minY, box.maxY)
      sum(axis) ==
        RAdd(RAdd(RMul(weightOf("tl", u, v), corners["tl"][axis]),
                  RMul(weightOf("tr", u, v), corners["tr"][axis])),
             RAdd(RMul(weightOf("br", u, v), corners["br"][axis]),
                  RMul(weightOf("bl", u, v), corners["bl"][axis])))
  IN  Point(RAdd(pt[1], sum(1)), RAdd(pt[2], sum(2)))

\* distort that forgets the vertical position of the points.
distort_noV(shape, corners) ==
  LET points == pointsOf(shape)
  IN  [kind |-> "path",
       points |-> IF points = <<>> THEN <<>>
                  ELSE [i \in 1 .. Len(points) |->
                          displace_noV(points[i], boundingBox(points), corners)],
       closed |-> shape.closed]

\* The geometry of shape.distort(corners).evaluate(time).
distort(shape, corners) ==
  LET points == pointsOf(shape)
  IN  [kind |-> "path",
       points |-> IF points = <<>> THEN <<>>
                  ELSE [i \in 1 .. Len(points) |->
                          displace(points[i], boundingBox(points), corners)],
       closed |-> shape.closed]

(***************************************************************************)
(* Inputs of distort: rectangles, the polygons of up to three points of a  *)
(* grid, the square of the documentation and a pentagon with a point       *)
(* inside its box; each corner is left out or given one displacement.      *)
(***************************************************************************)
GridCoordinates == {R(50 * k) : k \in 0 .. MaxGrid}

GridPoints == {Point(x, y) : x \in GridCoordinates, y \in GridCoordinates}

Square100 ==
  Polygon(<<Point(Zero, Zero), Point(R(100), Zero), Point(R(100), R(100)),
            Point(Zero, R(100))>>)

Pentagon ==
  Polygon(<<Point(Zero, Zero), Point(R(100), Zero), Point(R(100), R(100)),
            Point(R(25), R(50)), Point(Zero, R(100))>>)

DistortShapes ==
  {Rect(w, h) : w \in {Zero, R(100), R(3)}, h \in {Zero, R(50)}}
    \cup {Polygon(pts) : pts \in UNION {[1 .. n -> GridPoints] : n \in 1 .. 3}}
    \cup {Square100, Pentagon}

NoDisplacement == Point(Zero, Zero)

CornerMaps ==
  {[c \in CornerNames |-> IF c \in given THEN
                            (CASE c = "tl" -> Point(R(-10), Zero)
                               [] c = "tr" -> Point(R(10), Zero)
                               [] c = "br" -> Point(R(3), R(-1))
                               [] c = "bl" -> Point(Zero, R(20)))
                          ELSE NoDisplacement] : given \in SUBSET CornerNames}

InitDistort ==
  /\ xShape \in DistortShapes
  /\ xCorners \in CornerMaps
  /\ xOut = [kind |-> "path", points |-> <<>>, closed |-> FALSE]
  /\ xDone = FALSE
  /\ IdleNotX

\* shape.distort(corners).evaluate(time)
Distort ==
  /\ xDone = FALSE
  /\ xOut' = distort(xShape, xCorners)
  /\ xDone' = TRUE
  /\ UNCHANGED <<xShape, xCorners, notX>>

NextDistort == Distort

SpecDistort == InitDistort /\ [][NextDistort]_vars

(***************************************************************************)
(* Claims about distort.                                                   *)
(***************************************************************************)
xPoints ==
  IF xShape.kind = "rect"
    THEN <<Point(Norm(-xShape.width[1], 2 * xShape.width[2]),
                 Norm(-xShape.height[1], 2 * xShape.height[2])),
           Point(Norm(xShape.width[1], 2 * xShape.width[2]),
                 Norm(-xShape.height[1], 2 * xShape.height[2])),
           Point(Norm(xShape.width[1], 2 * xShape.width[2]),
                 Norm(xShape.height[1], 2 * xShape.height[2])),
           Point(Norm(-xShape.width[1], 2 * xShape.width[2]),
                 Norm(xShape.height[1], 2 * xShape.height[2]))>>
  ELSE xShape.points

xLeft == CHOOSE x \in {xPoints[i][1] : i \in 1 .. Len(xPoints)} :
           \A j \in 1 .. Len(xPoints) : RLe(x, xPoints[j][1])

xRight == CHOOSE x \in {xPoints[i][1] : i \in 1 .. Len(xPoints)} :
            \A j \in 1 .. Len(xPoints) : RLe(xPoints[j][1], x)

xTop == CHOOSE y \in {xPoints[i][2] : i \in 1 .. Len(xPoints)} :
          \A j \in 1 .. Len(xPoints) : RLe(y, xPoints[j][2])

xBottom == CHOOSE y \in {xPoints[i][2] : i \in 1 .. Len(xPoints)} :
             \A j \in 1 .. Len(xPoints) : RLe(xPoints[j][2], y)

\* Where a corner of the bounding box is.
CornerAt(c) ==
  CASE c = "tl" -> Point(xLeft, xTop)
    [] c = "tr" -> Point(xRight, xTop)
    [] c = "br" -> Point(xRight, xBottom)
    [] c = "bl" -> Point(xLeft, xBottom)

Pinned ==
  /\ xOut.kind = "path"
  /\ Len(xOut.points) = Len(xPoints)
  /\ \A i \in 1 .. Len(xPoints) : \A c \in CornerNames :
       xPoints[i] = CornerAt(c) =>
         xOut.points[i] = Point(RAdd(xPoints[i][1], xCorners[c][1]),
                                RAdd(xPoints[i][2], xCorners[c][2]))

Examples ==
  /\ (/\ xShape = Rect(R(100), R(50))
      /\ xCorners = [c \in CornerNames |->
                       IF c = "tl" THEN Point(R(-10), Zero)
                       ELSE IF c = "tr" THEN Point(R(10), Zero)
                       ELSE NoDisplacement]) =>
       /\ Len(xOut.points) = 4
       /\ xOut.points[1] = Point(R(-60), R(-25))
       /\ xOut.points[2] = Point(R(60), R(-25))
  /\ (/\ xShape = Square100
      /\ xCorners = [c \in CornerNames |->
                       IF c = "bl" THEN Point(Zero, R(20)) ELSE NoDisplacement]) =>
       xOut.points[4] = Point(Zero, R(120))

(***************************************************************************)
(* C19 as stated: distort pins the corners.  A point on a corner of the    *)
(* bounding box moves by exactly the displacement of that corner, 0 for a  *)
(* corner that is not given, and the result is a path; the rectangle and   *)
(* the square of the documentation give the points it says.                *)
(***************************************************************************)
C19_PinsCornersAnyBox ==
  (xDone /\ xPoints # <<>>) => (Pinned /\ Examples)

(***************************************************************************)
(* C19 amended: the same for a bounding box with a width and a height.  In *)
(* a box without one of them two corners are at the same place, and a      *)
(* point there moves by the displacement of the first of them only.        *)
(***************************************************************************)
C19_PinsCorners ==
  (xDone /\ xPoints # <<>> /\ xLeft # xRight /\ xTop # xBottom) =>
    (Pinned /\ Examples)

\* The square of the documentation with its bottom left corner pulled down.
C19_Witness ==
  /\ xDone
  /\ xShape = Square100
  /\ xCorners["bl"] = Point(Zero, R(20))
  /\ xCorners["tl"] = NoDisplacement
  /\ xOut.points[4] = Point(Zero, R(120))
  /\ xOut.points[1] = Point(Zero, Zero)

\* The rectangle of the documentation.
C19_WitnessRect ==
  /\ xDone
  /\ xShape.kind = "rect"
  /\ xOut.kind = "path"
  /\ xOut.points = <<Point(R(-60), R(-25)), Point(R(60), R(-25)),
                     Point(R(50), R(25)), Point(R(-50), R(25))>>

(***************************************************************************)
(* C20: for a looping spec whose duration + repeatDelay is negative, phase *)
(* takes the duration for the cycle: past the start it returns the ease of *)
(* (local mod duration) / duration.                                        *)
(***************************************************************************)
C20_NegativeCycleClamped ==
  (/\ pDone /\ pSpec.loop /\ pSpec.duration > 0 /\ cycleOf(pSpec) < 0
   /\ localOf(pSpec, pTime, pIndex) > 0) =>
    pPhase = applyEase(Norm(localOf(pSpec, pTime, pIndex) % pSpec.duration,
                            pSpec.duration), pSpec.ease)

\* What phase does instead: with a cycle that is not positive the run is
\* played once and then held at 1.
C20_NegativeCyclePlaysOnce ==
  (/\ pDone /\ pSpec.loop /\ pSpec.duration > 0 /\ cycleOf(pSpec) < 0
   /\ localOf(pSpec, pTime, pIndex) > 0) =>
    pPhase = IF localOf(pSpec, pTime, pIndex) > pSpec.duration THEN One
             ELSE applyEase(Norm(localOf(pSpec, pTime, pIndex), pSpec.duration),
                            pSpec.ease)


(***************************************************************************)
(* Claims about the repeat gap of phase.                                   *)
(***************************************************************************)
\* The position of the sample inside its cycle.
pInCycle == localOf(pSpec, pTime, pIndex) % cycleOf(pSpec)

\* C21: for a looping spec with duration > 0 and repeatDelay > 0, at every
\* time from the start on, phase is 1 when the position inside the current
\* cycle lies strictly after duration (the repeat gap), and is
\* ease(inCycle / duration) otherwise.
C21_HoldsInRepeatGap ==
  (/\ pDone /\ pSpec.loop /\ pSpec.duration > 0 /\ pSpec.repeatDelay > 0
   /\ localOf(pSpec, pTime, pIndex) >= 0) =>
    pPhase = IF pInCycle > pSpec.duration THEN One
             ELSE applyEase(Norm(pInCycle, pSpec.duration), pSpec.ease)

\* C21 witness: a sample in the repeat gap of the second cycle of a spec whose
\* ease at inCycle / duration is not 1.
C21_Witness ==
  /\ pDone /\ pSpec.loop /\ pSpec.duration > 0 /\ pSpec.repeatDelay > 1
  /\ localOf(pSpec, pTime, pIndex) > cycleOf(pSpec)
  /\ pInCycle > pSpec.duration
  /\ applyEase(Norm(pInCycle, pSpec.duration), pSpec.ease) # One
  /\ pPhase = One

\* C21 witness: a sample of the eased run of the second cycle, strictly
\* between 0 and 1.
C21_WitnessEased ==
  /\ pDone /\ pSpec.loop /\ pSpec.duration > 1 /\ pSpec.repeatDelay > 0
  /\ localOf(pSpec, pTime, pIndex) > cycleOf(pSpec)
  /\ pInCycle > 0 /\ pInCycle < pSpec.duration
  /\ pSpec.ease.type = "easeInOut"
  /\ RLt(Zero, pPhase) /\ RLt(pPhase, One)

(***************************************************************************)
(* Sequences whose thunks are not pure.  An item of a flow group may be a  *)
(* function, and a function may return another value each time it is       *)
(* called: a counter thunk returns the next builder of its list at each    *)
(* invocation and keeps returning the last one.                            *)
(***************************************************************************)
Counter(returns) == [kind |-> "counter", returns |-> returns]

\* typeof item === 'function'
isFunction(item) == item.kind \in {"thunk", "counter"}

\* item() on a function that was invoked calls times before.
invoke(item, calls) ==
  IF item.kind = "counter"
    THEN item.returns[IF calls < Len(item.returns) THEN calls + 1
                      ELSE Len(item.returns)]
  ELSE item.returns

\* durationOfItem(item) on an item that was invoked calls times before.
durationOfCounted(item, calls) ==
  IF isFunction(item) THEN durationOfItem(invoke(item, calls))
  ELSE durationOfItem(item)

\* The constructor loop of SequenceGroup from item k on, on items that were
\* invoked calls[k] times before.
RECURSIVE entriesCounted(_, _, _, _)
entriesCounted(items, calls, cursor, k) ==
  IF k > Len(items) THEN <<>>
  ELSE <<[offset |-> cursor, item |-> items[k]]>>
         \o entriesCounted(items, calls,
                           RAdd(cursor, durationOfCounted(items[k], calls[k])),
                           k + 1)

\* flattenItems([entry.item], time - entry.offset, entry.offset): a function
\* is invoked once and what it returns is flattened.
flattenCounted(entry, calls, time) ==
  IF isFunction(entry.item)
    THEN flattenItems(<<invoke(entry.item, calls)>>, RSub(time, entry.offset),
                      entry.offset)
  ELSE flattenItems(<<entry.item>>, RSub(time, entry.offset), entry.offset)

\* SequenceGroup.evaluate from entry k on.
RECURSIVE evaluateCounted(_, _, _, _)
evaluateCounted(entries, calls, time, k) ==
  IF k > Len(entries) THEN <<>>
  ELSE IF RLt(time, entries[k].offset)
    THEN evaluateCounted(entries, calls, time, k + 1)
  ELSE flattenCounted(entries[k], calls[k], time)
         \o evaluateCounted(entries, calls, time, k + 1)

\* The invocation counts after SequenceGroup.evaluate(time).
callsAfter(entries, calls, time) ==
  [k \in 1 .. Len(entries) |->
     IF isFunction(entries[k].item) /\ ~RLt(time, entries[k].offset)
       THEN calls[k] + 1 ELSE calls[k]]

NeverCalled(items) == [k \in 1 .. Len(items) |-> 0]

\* The invocation counts after new SequenceGroup(items).
callsAfterConstruction(items) ==
  [k \in 1 .. Len(items) |-> IF isFunction(items[k]) THEN 1 ELSE 0]

ThunkItems ==
  {S1, S3, Array(<<S2, S4>>), Thunk(S4), Counter(<<S1, S4>>),
   Counter(<<Array(<<>>), S4>>), Counter(<<Thunk(S2), S1>>)}

ThunkLists == UNION {[1 .. n -> ThunkItems] : n \in 0 .. MaxThunkItems}

ThunkTimes == {0, 1, 2, 3, 5}

InitThunks ==
  /\ qItems \in ThunkLists
  /\ qEntries = entriesCounted(qItems, NeverCalled(qItems), Zero, 1)
  /\ qCalls = callsAfterConstruction(qItems)
  /\ qTime = 0
  /\ qOut = <<>>
  /\ qEvals = 0
  /\ IdleNotQ

\* SequenceGroup.evaluate that rebuilds its entries from what the items
\* return now.
EvaluateThunks_recompute ==
  \E t \in ThunkTimes :
    /\ qEvals < MaxEvals
    /\ qTime' = t
    /\ qOut' = evaluateCounted(qEntries, qCalls, R(t), 1)
    /\ qCalls' = callsAfter(qEntries, qCalls, R(t))
    /\ qEvals' = qEvals + 1
    /\ qEntries' = entriesCounted(qItems, qCalls, Zero, 1)
    /\ UNCHANGED <<qItems, notQ>>

\* SequenceGroup.evaluate(time): every entry that has started is flattened,
\* which invokes its function once more; entries is only read.
EvaluateThunks ==
  \E t \in ThunkTimes :
    /\ qEvals < MaxEvals
    /\ qTime' = t
    /\ qOut' = evaluateCounted(qEntries, qCalls, R(t), 1)
    /\ qCalls' = callsAfter(qEntries, qCalls, R(t))
    /\ qEvals' = qEvals + 1
    /\ UNCHANGED <<qItems, qEntries, notQ>>

NextThunks == EvaluateThunks

SpecThunks == InitThunks /\ [][NextThunks]_vars

(***************************************************************************)
(* Claims about the offset table of a sequence.                            *)
(***************************************************************************)
\* What an item stood for when the sequence was built: a function had not
\* been called before.
FirstReturn(item) == IF item.kind = "counter" THEN item.returns[1] ELSE item

OffsetAtConstruction(k) ==
  SumDurations([j \in 1 .. Len(qItems) |-> FirstReturn(qItems[j])], k - 1)

\* C22: the offset table of a sequence is computed once in the constructor and
\* evaluate never changes it: after any number of evaluate calls at any times
\* every entry has the offset computed at construction, also when an item is
\* a thunk that is invoked again at each evaluation and returns something of
\* another duration.
C22_OffsetsFixed ==
  /\ Len(qEntries) = Len(qItems)
  /\ \A k \in 1 .. Len(qItems) :
       /\ qEntries[k].item = qItems[k]
       /\ qEntries[k].offset = OffsetAtConstruction(k)

\* C22 witness: a sequence whose first item is a thunk that returned builders
\* of different durations, evaluated twice after its second item started.
C22_Witness ==
  /\ qEvals >= 2 /\ Len(qItems) = 2
  /\ qItems[1].kind = "counter" /\ qCalls[1] >= 3
  /\ durationOfItem(qItems[1].returns[1]) # durationOfItem(qItems[1].returns[2])
  /\ qEntries[2].offset = durationOfItem(qItems[1].returns[1])
  /\ RLe(qEntries[2].offset, R(qTime))
  /\ Len(qOut) >= 2

(***************************************************************************)
(* Claims about the estimated duration of a sequence item.                 *)
(***************************************************************************)
\* The largest of a set of numbers, 0 for the empty set.
LargestOf(numbers) ==
  IF numbers = {} THEN Zero
  ELSE CHOOSE x \in numbers : \A y \in numbers : RLe(y, x)

\* The estimated duration the documentation gives an item: a function has
\* that of the value it returns, an array the largest of its elements'.
RECURSIVE EstimatedDuration(_)
EstimatedDuration(item) ==
  IF item.kind = "counter" THEN EstimatedDuration(item.returns[1])
  ELSE IF item.kind = "thunk" THEN EstimatedDuration(item.returns)
  ELSE IF item.kind = "array"
    THEN LargestOf({R(item.elems[i].duration) : i \in 1 .. Len(item.elems)})
  ELSE R(item.duration)

C23_WitnessThunk ==
  /\ Len(qItems) = 2
  /\ \/ qItems[1] = Counter(<<Thunk(S2), S1>>) /\ qEntries[2].offset = R(1)
     \/ /\ qItems[1].kind = "counter" /\ qItems[1].returns[1] = Array(<<>>)
        /\ qEntries[2].offset = Zero

(***************************************************************************)
(* Claims about flattenItems.                                              *)
(***************************************************************************)
\* The builders an item stands for, in order.
RECURSIVE Contents(_)
Contents(item) ==
  IF item.kind = "thunk" THEN Contents(item.returns)
  ELSE IF item.kind = "array" THEN item.elems
  ELSE <<item>>

\* The items of the call with every thunk and array replaced by its contents.
Inlined ==
  ConcatTo([k \in 1 .. fCount |-> Contents(fCall.items[k])], fCount)

\* C24: flattenItems resolves thunks recursively (a thunk that returns an
\* array or another thunk included), expands arrays element by element, calls
\* evaluate(time) on every builder and concatenates the results in input
\* order: a parallel, when or on group returns what the same group returns
\* with every thunk and array replaced by its contents listed inline, and a
\* parallel group one instance per builder, in that order, at the call's time.
C24_FlattenInline ==
  (fDone /\ fCall.op # "sequence") =>
    /\ fOut = evaluate(construct([fCall EXCEPT !.items = Inlined]), R(fTime))
    /\ fCall.op = "parallel" =>
         fOut = [i \in 1 .. Len(Inlined) |->
                   [shape |-> Inlined[i].id, time |-> R(fTime)]]

\* C24 witness: a parallel group of an array, a thunk that returns an array
\* and a thunk that returns a thunk, evaluated after time 0: five instances.
C24_Witness ==
  /\ fCall.op = "parallel" /\ fDone /\ fTime > 0
  /\ fCall.items = <<Array(<<S2, S4>>), Thunk(Array(<<S3, S1>>)), Thunk(Thunk(S2))>>
  /\ Len(fOut) = 5
  /\ fOut[5] = [shape |-> 2, time |-> R(fTime)]

(***************************************************************************)
(* C25: the flow composer's and the renderer's resolveStart / parseOffset  *)
(* return the same value for every time reference (a number, undefined or  *)
(* any string) and every prevEnd.                                          *)
(***************************************************************************)
C25_SameResolveStart ==
  /\ (sFlowDone /\ sRenderDone) => sFlow = sRender
  /\ \A prevEnd \in PrevEnds :
       resolveStart(sRef, prevEnd) = renderResolveStart(sRef, prevEnd)

\* C25 witness: both implementations have resolved a 'prev.end' reference
\* with a well-formed offset against a baseline that is not 0, and agree on a
\* value that is neither the baseline nor the offset.
C25_Witness ==
  /\ sFlowDone /\ sRenderDone
  /\ sRef.type = "string"
  /\ startsWith(stripWhitespace(sRef.text), PrevEndText)
  /\ sFlow # sPrevEnd
  /\ sFlow # RSub(sFlow, sPrevEnd)
  /\ sFlow = sRender

(***************************************************************************)
(* Timeline.  Times are whole milliseconds and the time scale is a whole   *)
(* number, so that every value now() computes is an integer; the duration  *)
(* is <<>> for null and <<ms>> for a number.                               *)
(***************************************************************************)
clamp(tl, ms) ==
  IF tl.duration = <<>> THEN ms
  ELSE IF ms < 0 THEN 0
  ELSE IF ms > tl.duration[1] THEN tl.duration[1]
  ELSE ms

\* now() that clamps from above only.
now_noFloor(tl, perf) ==
  IF tl.playing
    THEN IF tl.duration # <<>>
              /\ (perf - tl.start) * tl.timeScale + tl.offset > tl.duration[1]
           THEN tl.duration[1]
         ELSE (perf - tl.start) * tl.timeScale + tl.offset
  ELSE IF tl.duration # <<>> /\ tl.offset > tl.duration[1] THEN tl.duration[1]
  ELSE tl.offset

\* now() that follows the clock whether the timeline is playing or not.
now_running(tl, perf) ==
  clamp(tl, (perf - tl.start) * tl.timeScale + tl.offset)

\* now() that forgets the offset while the timeline is playing.
now_fromZero(tl, perf) ==
  IF tl.playing THEN clamp(tl, (perf - tl.start) * tl.timeScale)
  ELSE clamp(tl, tl.offset)

\* now(), with perf the value of performance.now()
now(tl, perf) ==
  IF tl.playing
    THEN clamp(tl, (perf - tl.start) * tl.timeScale + tl.offset)
  ELSE clamp(tl, tl.offset)

\* new Timeline()
newTimeline(perf) ==
  [start |-> perf, offset |-> 0, playing |-> TRUE, duration |-> <<>>,
   timeScale |-> 1]

reset(tl, perf) == [tl EXCEPT !.start = perf, !.offset = 0]

play(tl, perf) ==
  IF tl.playing THEN tl
  ELSE [tl EXCEPT !.start = perf, !.playing = TRUE]

pause(tl, perf) ==
  IF ~tl.playing THEN tl
  ELSE [tl EXCEPT !.offset = now(tl, perf), !.playing = FALSE]

seek(tl, ms, perf) ==
  IF tl.playing THEN [tl EXCEPT !.offset = clamp(tl, ms), !.start = perf]
  ELSE [tl EXCEPT !.offset = clamp(tl, ms)]

scrub(tl, ms, perf) == pause(seek(tl, ms, perf), perf)

setDuration(tl, ms) == [tl EXCEPT !.duration = ms]

setTimeScale(tl, value) == [tl EXCEPT !.timeScale = value]

SeekTimes == {-1, 1, 3, 5}

TimelineDurations == {<<>>, <<-2>>, <<0>>, <<2>>, <<4>>}

TimeScales == {-1, 0, 1, 2}

FirstClocks == {0, 1}

InitTimeline ==
  /\ clock \in FirstClocks
  /\ timeline = newTimeline(clock)
  /\ tOp = "none"
  /\ tOps = 0
  /\ tBefore = [now |-> 0, playing |-> TRUE]
  /\ tResume = <<>>
  /\ IdleNotT

\* What every call on the timeline records, beside its own effect.
Called(op) ==
  /\ tOps < MaxTimelineOps
  /\ tOp' = op
  /\ tOps' = tOps + 1
  /\ tBefore' = [now |-> now(timeline, clock), playing |-> timeline.playing]
  /\ UNCHANGED <<clock, notT>>

\* The clock advances by a millisecond.
Tick ==
  /\ clock < MaxClock
  /\ clock' = clock + 1
  /\ tOp' = "tick"
  /\ tBefore' = [now |-> now(timeline, clock), playing |-> timeline.playing]
  /\ UNCHANGED <<timeline, tOps, tResume, notT>>

Reset ==
  /\ Called("reset")
  /\ timeline' = reset(timeline, clock)
  /\ tResume' = <<>>

Play ==
  /\ Called("play")
  /\ timeline' = play(timeline, clock)
  /\ tResume' = IF timeline.playing THEN <<>>
                ELSE <<[v |-> now(timeline, clock), at |-> clock]>>

Pause ==
  /\ Called("pause")
  /\ timeline' = pause(timeline, clock)
  /\ tResume' = <<>>

Seek ==
  \E ms \in SeekTimes :
    /\ Called("seek")
    /\ timeline' = seek(timeline, ms, clock)
    /\ tResume' = <<>>

Scrub ==
  \E ms \in SeekTimes :
    /\ Called("scrub")
    /\ timeline' = scrub(timeline, ms, clock)
    /\ tResume' = <<>>

SetDuration ==
  \E ms \in TimelineDurations :
    /\ Called("setDuration")
    /\ timeline' = setDuration(timeline, ms)
    /\ tResume' = <<>>

SetTimeScale ==
  \E value \in TimeScales :
    /\ Called("setTimeScale")
    /\ timeline' = setTimeScale(timeline, value)
    /\ tResume' = <<>>

NextTimeline ==
  Tick \/ Reset \/ Play \/ Pause \/ Seek \/ Scrub \/ SetDuration \/ SetTimeScale

SpecTimeline == InitTimeline /\ [][NextTimeline]_vars

(***************************************************************************)
(* Claims about the Timeline.                                              *)
(***************************************************************************)
\* What now() returns in the current state.
Now == now(timeline, clock)

\* The unclamped position of a playing timeline.
RawPosition == (clock - timeline.start) * timeline.timeScale + timeline.offset

\* C26: whenever the duration is set to a non-negative number, now() returns
\* a value in [0, duration], after any sequence of play, pause, seek, scrub,
\* reset, setDuration and setTimeScale calls and any advance of the clock.
C26_NowWithinDuration ==
  (timeline.duration # <<>> /\ timeline.duration[1] >= 0) =>
    (0 <= Now /\ Now <= timeline.duration[1])

\* C26 witness: a playing timeline with a negative time scale and a positive
\* duration whose unclamped position has fallen below 0 after a seek.
C26_Witness ==
  /\ timeline.playing /\ timeline.timeScale < 0
  /\ timeline.duration # <<>> /\ timeline.duration[1] > 0
  /\ timeline.offset > 0
  /\ RawPosition < 0
  /\ Now = 0

\* C26 witness: a paused timeline whose stored offset lies beyond a duration
\* that was set afterwards.
C26_WitnessPaused ==
  /\ ~timeline.playing /\ tOp = "setDuration"
  /\ timeline.duration # <<>> /\ timeline.duration[1] > 0
  /\ timeline.offset > timeline.duration[1]
  /\ Now = timeline.duration[1]

\* C27: while the timeline is paused (after pause or scrub), now() does not
\* change as the clock advances, and pause again or setTimeScale leave it
\* unchanged; only seek, scrub, reset or setDuration can change it.
C27_PausedHolds ==
  ~tBefore.playing =>
    /\ tOp \in {"tick", "pause", "setTimeScale"} => Now = tBefore.now
    /\ Now # tBefore.now => tOp \in {"seek", "scrub", "reset", "setDuration"}

\* C27 witness: a timeline paused away from 0 with a time scale other than 0,
\* after the clock has advanced while it was paused.
C27_Witness ==
  /\ ~tBefore.playing /\ ~timeline.playing /\ tOp = "tick"
  /\ timeline.timeScale # 0
  /\ clock > timeline.start + 1
  /\ Now # 0
  /\ Now = tBefore.now

\* C27 witness: a seek moved the value of a paused timeline.
C27_WitnessSeek ==
  /\ ~tBefore.playing /\ ~timeline.playing /\ tOp = "seek"
  /\ Now # tBefore.now

\* The clock time since the last play() that resumed the timeline.
Elapsed == clock - tResume[1].at

\* C28 as stated: if the timeline is paused at value v, then immediately after
\* play() now() equals v, and thereafter now() is v plus the elapsed clock
\* time multiplied by timeScale.
C28_ResumeAdvances ==
  tResume # <<>> => Now = tResume[1].v + Elapsed * timeline.timeScale

\* C28 amended: if the timeline is paused at value v, then immediately after
\* play() now() equals v; thereafter now() is v plus the elapsed clock time
\* multiplied by timeScale when no duration is set, or when the stored offset
\* is v and that sum lies within [0, duration].
C28_ResumeAdvancesUnclamped ==
  tResume # <<>> =>
    /\ Elapsed = 0 => Now = tResume[1].v
    /\ (\/ timeline.duration = <<>>
        \/ /\ timeline.offset = tResume[1].v
           /\ 0 <= tResume[1].v + Elapsed * timeline.timeScale
           /\ tResume[1].v + Elapsed * timeline.timeScale <= timeline.duration[1]) =>
         Now = tResume[1].v + Elapsed * timeline.timeScale

\* C28 witness: a timeline paused away from 0 and resumed with time scale 2,
\* two milliseconds later.
C28_Witness ==
  /\ tResume # <<>> /\ tResume[1].v > 0
  /\ timeline.timeScale = 2
  /\ Elapsed = 2
  /\ Now = tResume[1].v + 4

\* C28 witness: the instant of the play() call.
C28_WitnessInstant ==
  /\ tResume # <<>> /\ tOp = "play" /\ tResume[1].v > 0
  /\ Now = tResume[1].v

\* C28 witness: a resumed timeline with a duration, a millisecond later and
\* inside the duration.
C28_WitnessDuration ==
  /\ tResume # <<>> /\ tResume[1].v > 0
  /\ timeline.duration # <<>>
  /\ Elapsed = 1
  /\ Now = tResume[1].v + 1

\* C29: setTimeScale on a playing timeline does not change the value now()
\* returns at the instant of the call.
C29_ScaleKeepsNow ==
  (tBefore.playing /\ tOp = "setTimeScale") => Now = tBefore.now


(***************************************************************************)
(* C30: clear() empties both the item list and the set of keys and calls   *)
(* every listener with an empty snapshot, so that an addOnce with a key    *)
(* that was reported before the clear adds a new item after it.            *)
(***************************************************************************)
C30_ClearForgetsKeys ==
  /\ dOp = "clear" =>
       /\ diagnostics.items = <<>>
       /\ diagnostics.keys = {}
       /\ dDelivered = [i \in 1 .. Len(diagnostics.listeners) |->
                          [listener |-> diagnostics.listeners[i], items |-> <<>>]]
  /\ (/\ dOp = "addOnce"
      /\ dReports[Len(dReports)].key \in dCleared
      /\ dReports[Len(dReports)].key
           \notin ReportedKeys(SubSeq(dReports, 1, Len(dReports) - 1))) =>
       /\ diagnostics.items # <<>>
       /\ diagnostics.items[Len(diagnostics.items)] =
            [level |-> dReports[Len(dReports)].level,
             message |-> dReports[Len(dReports)].message,
             detail |-> dReports[Len(dReports)].detail,
             time |-> dOps - 1]
       /\ dReports[Len(dReports)].key \in diagnostics.keys

\* C30 witness: with a listener subscribed, a key was reported, the store was
\* cleared and the key was reported again: the store holds the new item only
\* and the listener was called with it.
C30_Witness ==
  /\ dOp = "addOnce" /\ dOps = 4
  /\ Len(dReports) = 1 /\ dReports[1].key \in dCleared
  /\ Len(diagnostics.items) = 1
  /\ diagnostics.items[1].time = 3
  /\ Len(diagnostics.listeners) = 1
  /\ dDelivered = <<[listener |-> diagnostics.listeners[1],
                     items |-> diagnostics.items]>>

\* C30 witness: clear() on a store with an item and two listeners.
C30_WitnessClear ==
  /\ dOp = "clear" /\ dCleared # {}
  /\ Len(diagnostics.listeners) = 2
  /\ Len(dDelivered) = 2
  /\ dDelivered[1].items = <<>> /\ dDelivered[2].items = <<>>
====
